---- MODULE Spec2Model ----
(***************************************************************************)
(* A model of the Shopify SQL query endpoint (api/query.js) and of its     *)
(* earlier REST / DuckDB variants.                                         *)
(*                                                                         *)
(*   - text layer: SQL text is a sequence of one-character strings; the    *)
(*     four regular expressions of detectTablesFromSQL are evaluated on    *)
(*     the characters (word boundaries, \s+, literals);                    *)
(*   - SpecResolve: detectTablesFromSQL applied to bounded SQL texts;      *)
(*   - Spec: the query-mode handler of api/query.js, one process per       *)
(*     request, interleaving at every await of a remote fetch, over the    *)
(*     module-level alasql table registry;                                 *)
(*   - SpecRest: the regex-parser (REST) variant of the handler.           *)
(***************************************************************************)
EXTENDS Integers, Sequences, FiniteSets, TLC

VARIABLES
    \* ---- table resolver run on its own (SpecResolve)
    rsql,          \* the SQL text given to detectTablesFromSQL
    rpc,           \* "ready" | "done"
    rtables,       \* the array detectTablesFromSQL returned
    \* ---- the query handler of api/query.js (Spec), per request
    pc,            \* "idle" | "fetching" (at an await of axios.post) | "done"
    given,         \* req.method, and what the session cookie and req.body.credentials hold
    auth,          \* where storeName and accessToken were taken from
    sqlText,       \* req.body.sql
    resolved,      \* const tables = detectTablesFromSQL(sql)
    fetchIdx,      \* position of the for-of loop over tables
    page,          \* page requests issued by the fetchShopifyData call in progress
                   \* (those answered by an empty page are not counted)
    pageAfter,     \* variables.after of the page request awaited: "null", or the
                   \* endCursor of the page before; "none" when nothing is awaited
    tableData,     \* const tableData = {}: entries in insertion order
    response,      \* what res.status(..).json(..) sent, and the Set-Cookie header
    \* ---- module state shared by all requests
    alasqlTables,  \* alasql.tables: table name -> data
    \* ---- the store behind the remote API
    remote,        \* its orders: the number of line items of each order id
    \* ---- history of each request (observations, never read by the handler)
    snapshot,      \* per completed fetch: the table, the resource queried and the
                   \* remote data the fetch read
    remoteRequested, \* the tables for which an axios.post was issued
    remoteFailure, \* the fetch that failed: its table and the remote API's HTTP status
    loadedBy,      \* the tables this request created in alasql
    engineCall,    \* what alasql(sql) did for this request
    overlap,       \* the requests that were in flight together with this one
    respondedBefore, \* the requests that had responded when this one arrived
    \* ---- the regex-parser (REST) variant of the handler (SpecRest), per request
    restPc,        \* "idle" | "fetching" (at the await of axios.get) | "done"
    restSql,       \* req.body.sql
    restParsed,    \* what parser.parse(sql) did: threw, or the table it found
    restResponse,  \* what res.status(..).json(..) sent
    \* ---- one call of fetchShopifyData (SpecFetch)
    fetchPc,       \* "off" | "loop" (at the test of the while loop) |
                   \* "awaiting" (at the await of axios.post) | "returned"
    fetchResource, \* the resource argument
    allData,       \* let allData = []: its length, and the nested children of each record
    hasNextPage,   \* let hasNextPage = true
    lastRequest,   \* the last page request: variables.first and variables.after,
                   \* and allData.length before it
    cursor,        \* let cursor = null
    outstanding,   \* the page requests sent and not yet answered
    lastResponse,  \* the last page response: the endCursor the remote API sent
    fetchCount,    \* count of the response to SELECT * FROM resource over the rows returned
    \* ---- one run of a normaliser (SpecNormalize)
    nPc,           \* "off" | "ready" | "done"
    nVariant,      \* "graphql" (api/query.js) | "rest" (regex parser) | "duckdb"
    nResource,     \* the table
    nData,         \* the data of the remote API
    nOut,          \* what the normaliser did: it threw, or the rows it returned
    \* ---- one call of a custom SQL function alasql.fn.* (SpecFunctions)
    fnPc,          \* "off" | "ready" | "done"
    fnName,        \* the function called
    fnArgs,        \* the arguments of the call
    fnResult,      \* the value the call returned, or Thrown when it raised
    \* ---- identifier stripping applied repeatedly (SpecStrip)
    stripPc,       \* "off" | "ready" | "done"
    stripInput,    \* the identifier x
    stripped       \* the results so far: strip(x), strip(strip(x))

resolverVars == <<rsql, rpc, rtables>>

handlerVars ==
    <<pc, given, auth, remote, snapshot, sqlText, resolved, fetchIdx, page, pageAfter, tableData, response, alasqlTables,
      remoteRequested, remoteFailure, loadedBy, engineCall, overlap,
      respondedBefore>>

restVars == <<restPc, restSql, restParsed, restResponse>>

fetchVars ==
    <<fetchPc, fetchResource, allData, hasNextPage, lastRequest, cursor, outstanding,
      lastResponse, fetchCount>>

\* the variables of the specifications of single functions
normVars == <<nPc, nVariant, nResource, nData, nOut>>

fnVars == <<fnPc, fnName, fnArgs, fnResult>>

stripVars == <<stripPc, stripInput, stripped>>

libVars == <<fetchVars, normVars, fnVars, stripVars>>

vars == <<resolverVars, handlerVars, restVars, libVars>>

(***************************************************************************)
(* Characters and strings                                                  *)
(***************************************************************************)
LowerLetters ==
    <<"a", "b", "c", "d", "e", "f", "g", "h", "i", "j", "k", "l", "m",
      "n", "o", "p", "q", "r", "s", "t", "u", "v", "w", "x", "y", "z">>

UpperLetters ==
    <<"A", "B", "C", "D", "E", "F", "G", "H", "I", "J", "K", "L", "M",
      "N", "O", "P", "Q", "R", "S", "T", "U", "V", "W", "X", "Y", "Z">>

Digits == {"0", "1", "2", "3", "4", "5", "6", "7", "8", "9"}

Range(s) == {s[i] : i \in 1..Len(s)}

\* \w of a JavaScript regular expression: [A-Za-z0-9_]
WordChars == Range(LowerLetters) \cup Range(UpperLetters) \cup Digits \cup {"_"}

IsWordChar(c) == c \in WordChars

\* \s of a JavaScript regular expression (the members that occur in the texts)
IsSpaceChar(c) == c \in {" ", "\t", "\n", "\r"}

\* the lower-case letter of each upper-case letter
LowerOf ==
    [c \in Range(UpperLetters) |->
        LowerLetters[CHOOSE i \in 1..Len(UpperLetters) : UpperLetters[i] = c]]

\* String.prototype.toLowerCase, one character
LowerChar(c) == IF c \in DOMAIN LowerOf THEN LowerOf[c] ELSE c

\* String.prototype.toLowerCase
toLowerCase(s) == [i \in 1..Len(s) |-> LowerChar(s[i])]

\* the literal lit occurs in s at position i
LiteralAt(s, i, lit) ==
    /\ i >= 1
    /\ i + Len(lit) - 1 <= Len(s)
    /\ \A k \in 1..Len(lit) : s[i + k - 1] = lit[k]

\* \b at position i of s: between s[i-1] and s[i], exactly one is a word
\* character (outside the string counts as a non-word character)
WordBoundary(s, i) ==
    LET before == i >= 2 /\ i - 1 <= Len(s) /\ IsWordChar(s[i - 1])
        after  == i >= 1 /\ i <= Len(s) /\ IsWordChar(s[i])
    IN  before # after

\* String.prototype.includes
Includes(s, needle) == \E i \in 1..(Len(s) + 1) : LiteralAt(s, i, needle)

(***************************************************************************)
(* The table catalog of detectTablesFromSQL                                *)
(***************************************************************************)
availableTables ==
    <<"orders", "order_line_items", "order_sessions",
      "products", "product_variants",
      "customers",
      "collections",
      "inventory_items", "inventory_levels",
      "locations",
      "draft_orders",
      "shop">>

Catalog == Range(availableTables)

\* the characters of a table name (the ${table} of the template literals)
TableChars(t) ==
    CASE t = "orders"           -> <<"o", "r", "d", "e", "r", "s">>
      [] t = "order_line_items" -> <<"o", "r", "d", "e", "r", "_", "l", "i", "n", "e", "_", "i", "t", "e", "m", "s">>
      [] t = "order_sessions"   -> <<"o", "r", "d", "e", "r", "_", "s", "e", "s", "s", "i", "o", "n", "s">>
      [] t = "products"         -> <<"p", "r", "o", "d", "u", "c", "t", "s">>
      [] t = "product_variants" -> <<"p", "r", "o", "d", "u", "c", "t", "_", "v", "a", "r", "i", "a", "n", "t", "s">>
      [] t = "customers"        -> <<"c", "u", "s", "t", "o", "m", "e", "r", "s">>
      [] t = "collections"      -> <<"c", "o", "l", "l", "e", "c", "t", "i", "o", "n", "s">>
      [] t = "inventory_items"  -> <<"i", "n", "v", "e", "n", "t", "o", "r", "y", "_", "i", "t", "e", "m", "s">>
      [] t = "inventory_levels" -> <<"i", "n", "v", "e", "n", "t", "o", "r", "y", "_", "l", "e", "v", "e", "l", "s">>
      [] t = "locations"        -> <<"l", "o", "c", "a", "t", "i", "o", "n", "s">>
      [] t = "draft_orders"     -> <<"d", "r", "a", "f", "t", "_", "o", "r", "d", "e", "r", "s">>
      [] t = "shop"             -> <<"s", "h", "o", "p">>

kwFrom == <<"f", "r", "o", "m">>

kwJoin == <<"j", "o", "i", "n">>

(***************************************************************************)
(* detectTablesFromSQL: the four patterns, tested on the lower-cased text  *)
(***************************************************************************)
\* KeywordPattern without its leading \b
KeywordPatternUnanchored(kw, t, s) ==
    \E i \in 1..Len(s) :
        /\ LiteralAt(s, i, kw)
        /\ \E n \in 1..Len(s) :
              /\ \A k \in 0..(n - 1) :
                    /\ i + Len(kw) + k <= Len(s)
                    /\ IsSpaceChar(s[i + Len(kw) + k])
              /\ LiteralAt(s, i + Len(kw) + n, TableChars(t))
              /\ WordBoundary(s, i + Len(kw) + n + Len(TableChars(t)))

\* new RegExp(`\\b${kw}\\s+${table}\\b`, 'i') for kw = from, join
KeywordPattern(kw, t, s) ==
    \E i \in 1..Len(s) :
        /\ WordBoundary(s, i)
        /\ LiteralAt(s, i, kw)
        /\ \E n \in 1..Len(s) :
              /\ \A k \in 0..(n - 1) :
                    /\ i + Len(kw) + k <= Len(s)
                    /\ IsSpaceChar(s[i + Len(kw) + k])
              /\ LiteralAt(s, i + Len(kw) + n, TableChars(t))
              /\ WordBoundary(s, i + Len(kw) + n + Len(TableChars(t)))

\* new RegExp(`\\b${table}\\.`, 'i')
DottedPattern(t, s) ==
    \E i \in 1..Len(s) :
        /\ WordBoundary(s, i)
        /\ LiteralAt(s, i, TableChars(t) \o <<".">>)

\* new RegExp(`"${table}"`, 'i')
QuotedPattern(t, s) ==
    \E i \in 1..Len(s) : LiteralAt(s, i, <<"\"">> \o TableChars(t) \o <<"\"">>)

\* patterns.some(p => p.test(normalizedSQL))
PatternsSome(t, normalizedSQL) ==
    \/ KeywordPattern(kwFrom, t, normalizedSQL)
    \/ KeywordPattern(kwJoin, t, normalizedSQL)
    \/ DottedPattern(t, normalizedSQL)
    \/ QuotedPattern(t, normalizedSQL)

\* [...new Set(tables)]: the first occurrence of each element, in order
RECURSIVE Dedup(_)
Dedup(a) ==
    IF a = <<>> THEN <<>>
    ELSE LET init == Dedup(SubSeq(a, 1, Len(a) - 1))
             last == a[Len(a)]
         IN  IF last \in Range(init) THEN init ELSE Append(init, last)

\* the for loop over availableTables, pushing each table some pattern matches
RECURSIVE DetectLoop(_, _)
DetectLoop(k, normalizedSQL) ==
    IF k = 0 THEN <<>>
    ELSE LET tables == DetectLoop(k - 1, normalizedSQL)
         IN  IF PatternsSome(availableTables[k], normalizedSQL)
             THEN Append(tables, availableTables[k])
             ELSE tables

detectTablesFromSQL(sql) ==
    Dedup(DetectLoop(Len(availableTables), toLowerCase(sql)))

(***************************************************************************)
(* SQL texts                                                               *)
(***************************************************************************)
\* SELECT * FROM orders
SqlOrders ==
    <<"S", "E", "L", "E", "C", "T", " ", "*", " ", "F", "R", "O", "M", " ",
      "o", "r", "d", "e", "r", "s">>

\* SELECT * FROM customers
SqlCustomers ==
    <<"S", "E", "L", "E", "C", "T", " ", "*", " ", "F", "R", "O", "M", " ",
      "c", "u", "s", "t", "o", "m", "e", "r", "s">>

\* SELECT * FROM orders, customers
SqlCommaJoin ==
    <<"S", "E", "L", "E", "C", "T", " ", "*", " ", "F", "R", "O", "M", " ",
      "o", "r", "d", "e", "r", "s", ",", " ",
      "c", "u", "s", "t", "o", "m", "e", "r", "s">>

\* SELECT * FROM orders o JOIN customers c ON o.customer_id = c.id
SqlJoin ==
    <<"S", "E", "L", "E", "C", "T", " ", "*", " ", "F", "R", "O", "M", " ",
      "o", "r", "d", "e", "r", "s", " ", "o", " ", "J", "O", "I", "N", " ",
      "c", "u", "s", "t", "o", "m", "e", "r", "s", " ", "c", " ", "O", "N", " ",
      "o", ".", "c", "u", "s", "t", "o", "m", "e", "r", "_", "i", "d", " ", "=", " ",
      "c", ".", "i", "d">>

\* SELEC * FORM orders
SqlMalformed ==
    <<"S", "E", "L", "E", "C", " ", "*", " ", "F", "O", "R", "M", " ",
      "o", "r", "d", "e", "r", "s">>

\* SELEC * FROM orders
SqlMisspelledSelect ==
    <<"S", "E", "L", "E", "C", " ", "*", " ", "F", "R", "O", "M", " ",
      "o", "r", "d", "e", "r", "s">>

\* SELECT * FROM orders o JOIN order_line_items i ON o.id = i.order_id
SqlOrdersItems ==
    <<"S", "E", "L", "E", "C", "T", " ", "*", " ", "F", "R", "O", "M", " ",
      "o", "r", "d", "e", "r", "s", " ", "o", " ", "J", "O", "I", "N", " ",
      "o", "r", "d", "e", "r", "_", "l", "i", "n", "e", "_", "i", "t", "e", "m", "s", " ",
      "i", " ", "O", "N", " ", "o", ".", "i", "d", " ", "=", " ",
      "i", ".", "o", "r", "d", "e", "r", "_", "i", "d">>

\* SELECT 1
SqlNoTable == <<"S", "E", "L", "E", "C", "T", " ", "1">>

\* the empty string (falsy: `!sql`)
SqlEmpty == <<>>

\* SELECT VALUE COUNT(*) FROM orders
SqlCountValue ==
    <<"S", "E", "L", "E", "C", "T", " ", "V", "A", "L", "U", "E", " ",
      "C", "O", "U", "N", "T", "(", "*", ")", " ", "F", "R", "O", "M", " ",
      "o", "r", "d", "e", "r", "s">>

(***************************************************************************)
(* The SQL engine: alasql(sql) over the module-level table registry        *)
(***************************************************************************)
\* the text as tokens, white space dropped: maximal runs of word characters,
\* and every other character on its own
RECURSIVE WordEnd(_, _)
WordEnd(s, i) ==
    IF i < Len(s) /\ IsWordChar(s[i + 1]) THEN WordEnd(s, i + 1) ELSE i

RECURSIVE TokensFrom(_, _)
TokensFrom(s, i) ==
    IF i > Len(s) THEN <<>>
    ELSE IF IsSpaceChar(s[i]) THEN TokensFrom(s, i + 1)
    ELSE IF IsWordChar(s[i])
         THEN <<SubSeq(s, i, WordEnd(s, i))>> \o TokensFrom(s, WordEnd(s, i) + 1)
         ELSE <<SubSeq(s, i, i)>> \o TokensFrom(s, i + 1)

Tokens(s) == TokensFrom(toLowerCase(s), 1)

kwSelect == <<"s", "e", "l", "e", "c", "t">>

\* the keywords that end a FROM list
ClauseKeywords ==
    { <<"w", "h", "e", "r", "e">>, <<"o", "n">>, <<"j", "o", "i", "n">>,
      <<"g", "r", "o", "u", "p">>, <<"o", "r", "d", "e", "r">>,
      <<"l", "i", "m", "i", "t">>, <<"h", "a", "v", "i", "n", "g">> }

\* the statement parses: the engine knows the statement's first word
EngineAccepts(s) == Tokens(s) # <<>> /\ Tokens(s)[1] = kwSelect

\* token p of tk names a table source: it follows FROM or JOIN, or it follows
\* a comma inside the list that FROM opens
IsTableSource(tk, p) ==
    /\ p >= 2
    /\ IsWordChar(tk[p][1])
    /\ \/ tk[p - 1] \in {kwFrom, kwJoin}
       \/ /\ tk[p - 1] = <<",">>
          /\ \E f \in 1..(p - 2) :
                /\ tk[f] = kwFrom
                /\ \A q \in (f + 1)..(p - 1) : tk[q] \notin ClauseKeywords

\* the catalog tables the statement reads as table sources
TableSources(s) ==
    LET tk == Tokens(s)
    IN  {t \in Catalog : \E p \in 1..Len(tk) : IsTableSource(tk, p) /\ tk[p] = TableChars(t)}

kwValue == <<"v", "a", "l", "u", "e">>

\* SELECT VALUE ...: the engine returns the value itself, not an array of rows
ReturnsScalar(s) == Len(Tokens(s)) >= 2 /\ Tokens(s)[2] = kwValue

\* the lengths of the arrays the engine returns
ResultLengths == {0, 2}

\* what the engine returned: an array of length rows, or a value that is no array
NoResult == [isArray |-> FALSE, length |-> 0]

\* a table that does not exist in alasql.tables
NoTable == [by |-> 0, table |-> "none"]

\* the messages of the errors the engine throws
MsgParseError == <<"Parse", " ", "error", " ", "on", " ", "line", " ", "1">>

MsgTableNotFound == <<"Table", " ", "not", " ", "found">>

MsgTableDoesNotExist == <<"Table", " ", "does", " ", "not", " ", "exist">>

EngineMessages == {MsgParseError, MsgTableNotFound, MsgTableDoesNotExist}

NoEngineCall ==
    [called |-> FALSE, threw |-> FALSE, message |-> <<>>, reads |-> {}, result |-> NoResult]

\* results = alasql(sql): the engine throws, with one of its messages, and
\* always does when it rejects the statement or when one of the statement's
\* sources is missing from the registry; or it returns rows computed from the
\* registry's tables the statement reads: an array, or the value of SELECT VALUE
EngineOutcomes(accepted, scalar, sources, registry) ==
    {[called |-> TRUE, threw |-> TRUE, message |-> m, reads |-> {}, result |-> NoResult] :
        m \in EngineMessages}
    \cup
    (IF ~accepted \/ \E t \in sources : registry[t] = NoTable
     THEN {}
     ELSE {[called |-> TRUE, threw |-> FALSE, message |-> <<>>,
            reads |-> {registry[t] : t \in sources}, result |-> res] :
              res \in IF scalar THEN {NoResult}
                      ELSE {[isArray |-> TRUE, length |-> n] : n \in ResultLengths}})

(***************************************************************************)
(* fetchShopifyData and the errors of the fetch stage                      *)
(***************************************************************************)
\* const sourceMap = {...}; baseResource = sourceMap[resource] || resource
BaseResource(resource) ==
    CASE resource = "order_line_items" -> "orders"
      [] resource = "order_sessions"   -> "orders"
      [] resource = "product_variants" -> "products"
      [] resource = "inventory_levels" -> "inventory_items"
      [] OTHER -> resource

\* query.includes('$first'): every query but those of shop and locations
Paginated(resource) == BaseResource(resource) \notin {"shop", "locations"}

\* the HTTP statuses with which the remote API rejects a request
RemoteErrorStatuses == {401, 403, 404}

\* an error object: its message and error.response?.status (0: no response)
AxiosError(status) ==
    [message |-> <<"Request failed with status code">>, responseStatus |-> status]

\* throw new Error(response.data.errors[0]?.message || 'GraphQL error')
GraphQLError == [message |-> <<"GraphQL error">>, responseStatus |-> 0]

FetchFailures == {AxiosError(st) : st \in RemoteErrorStatuses} \cup {GraphQLError}

\* the fetch error thrown on as it is, not wrapped
WrapFetchErrorRethrown(table, error) == error

\* throw new Error(`Failed to fetch ${table}: ${error.message}`)
WrapFetchError(table, error) ==
    [message |-> <<"Failed to fetch ", table, ": ">> \o error.message,
     responseStatus |-> 0]

(***************************************************************************)
(* Responses                                                               *)
(***************************************************************************)
\* results: the rows' origin (reads), whether it is an array, and its length
NoResults == [reads |-> {}, isArray |-> FALSE, length |-> 0]

NoResponse ==
    [status |-> 0, keys |-> {}, error |-> <<>>, results |-> NoResults, count |-> 0,
     setCookie |-> "none"]

ErrorResponse(status, message, cookie) ==
    [status |-> status, keys |-> {"error"}, error |-> message,
     results |-> NoResults, count |-> 0, setCookie |-> cookie]

\* the engine's result left as it is
EnsureArrayNot(results) == results

\* if (!Array.isArray(results)) results = [results]
EnsureArray(results) ==
    IF results.isArray THEN results
    ELSE [reads |-> results.reads, isArray |-> TRUE, length |-> 1]

\* res.status(200).json({ results, count: results.length }): the length of a
\* value that is no array is undefined, and JSON leaves the key out
SuccessResponse(results) ==
    [status |-> 200,
     keys |-> IF results.isArray THEN {"results", "count"} ELSE {"results"},
     error |-> <<>>, results |-> results,
     count |-> IF results.isArray THEN results.length ELSE 0,
     setCookie |-> "none"]

\* the outer catch: 401 with the session cookie cleared when the error carries
\* a 401 response, 500 with the error's message otherwise
OuterCatch(error) ==
    IF error.responseStatus = 401
    THEN ErrorResponse(401, <<"Session expired. Please reconnect.">>, "clear")
    ELSE ErrorResponse(500, error.message, "none")

\* Object.keys(tableData).join(', ')
RECURSIVE JoinKeys(_)
JoinKeys(td) ==
    IF td = <<>> THEN <<>>
    ELSE IF Len(td) = 1 THEN <<td[1].table>>
    ELSE <<td[1].table, ", ">> \o JoinKeys(Tail(td))

MsgNotFound == <<"not", " ", "found">>

\* SqlErrorResponse appending the loaded tables to every message
SqlErrorResponseAlwaysListing(message, td) ==
    ErrorResponse(400, <<"SQL Error: ">> \o message \o <<". Available tables: ">>
                           \o JoinKeys(td), "none")

\* the catch around alasql(sql): the engine's message, with the loaded tables
\* appended when it includes 'not found'
SqlErrorResponse(message, td) ==
    LET errorMsg == IF Includes(message, MsgNotFound)
                    THEN message \o <<". Available tables: ">> \o JoinKeys(td)
                    ELSE message
    IN  ErrorResponse(400, <<"SQL Error: ">> \o errorMsg, "none")

(***************************************************************************)
(* The handler of api/query.js, query mode                                 *)
(***************************************************************************)
\* the requests are numbered in the order of their arrival
NumRequests == 2

\* no fetchShopifyData call issues more than MaxPages page requests
MaxPages == 2

Requests == 1..NumRequests

\* the SQL texts of the requests
HandlerTexts ==
    {SqlOrders, SqlCommaJoin, SqlJoin, SqlMalformed, SqlMisspelledSelect, SqlCountValue}

\* detectTablesFromSQL, and the engine's reading of the statement, of each
\* of the requests' texts
ResolvedOf == [text \in HandlerTexts \cup {SqlOrdersItems} |-> detectTablesFromSQL(text)]

AcceptedOf == [text \in HandlerTexts \cup {SqlOrdersItems} |-> EngineAccepts(text)]

SourcesOf == [text \in HandlerTexts \cup {SqlOrdersItems} |-> TableSources(text)]

ScalarOf == [text \in HandlerTexts \cup {SqlOrdersItems} |-> ReturnsScalar(text)]

NoFailure == [failed |-> FALSE, status |-> 0, table |-> "none"]

\* what decodeSession(cookies.shopify_session) holds: nothing (no cookie, or
\* one that does not decode), one of storeName and accessToken, or both
Sessions == {"none", "partial", "valid"}

\* what req.body.credentials holds: nothing, one of storeName and
\* apiPassword, or both
BodyCredentials == {"none", "partial", "both"}

\* the methods of the requests
Methods == {"OPTIONS", "GET", "POST"}

NoneGiven == [method |-> "none", session |-> "none", credentials |-> "none"]

\* the credentials of the body before those of the session
ResolveCredentialsBodyFirst(session, credentials) ==
    IF credentials = "both" THEN "body"
    ELSE IF session = "valid" THEN "session"
    ELSE "none"

\* if (session?.storeName && session?.accessToken) .. else if
\* (credentials?.storeName && credentials?.apiPassword) .. else 401
ResolveCredentials(session, credentials) ==
    IF session = "valid" THEN "session"
    ELSE IF credentials = "both" THEN "body"
    ELSE "none"

\* a POST request in query mode with what it carries
Given(session, credentials) ==
    [method |-> "POST", session |-> session, credentials |-> credentials]

\* a store without orders
EmptyStore == [o \in {} |-> 0]

InitHandler ==
    /\ pc = [r \in Requests |-> "idle"]
    /\ given = [r \in Requests |-> NoneGiven]
    /\ auth = [r \in Requests |-> "none"]
    /\ remote = EmptyStore
    /\ snapshot = [r \in Requests |-> <<>>]
    /\ sqlText = [r \in Requests |-> <<>>]
    /\ resolved = [r \in Requests |-> <<>>]
    /\ fetchIdx = [r \in Requests |-> 0]
    /\ page = [r \in Requests |-> 0]
    /\ pageAfter = [r \in Requests |-> "none"]
    /\ tableData = [r \in Requests |-> <<>>]
    /\ response = [r \in Requests |-> NoResponse]
    /\ alasqlTables = [t \in Catalog |-> NoTable]
    /\ remoteRequested = [r \in Requests |-> {}]
    /\ remoteFailure = [r \in Requests |-> NoFailure]
    /\ loadedBy = [r \in Requests |-> {}]
    /\ engineCall = [r \in Requests |-> NoEngineCall]
    /\ overlap = [r \in Requests |-> {}]
    /\ respondedBefore = [r \in Requests |-> {}]

InFlight == {q \in Requests : pc[q] = "fetching"}

Responded == {q \in Requests : pc[q] = "done"}

\* the load without DROP TABLE and with CREATE TABLE IF NOT EXISTS filling
\* only a table it created: a table that exists keeps its data
LoadTablesKeepExisting(registry, td) ==
    [t \in Catalog |->
        IF registry[t] = [by |-> 0, table |-> "none"] /\ \E i \in 1..Len(td) : td[i].table = t
        THEN td[CHOOSE i \in 1..Len(td) : td[i].table = t].data
        ELSE registry[t]]

\* for (const [tableName, data] of Object.entries(tableData)):
\* DROP TABLE IF EXISTS, CREATE TABLE, alasql.tables[tableName].data = data
LoadTables(registry, td) ==
    [t \in Catalog |->
        IF \E i \in 1..Len(td) : td[i].table = t
        THEN td[CHOOSE i \in 1..Len(td) : td[i].table = t].data
        ELSE registry[t]]

\* the response to what alasql(sql) did
ExecuteResponse(outcome, td) ==
    IF outcome.threw
    THEN SqlErrorResponse(outcome.message, td)
    ELSE SuccessResponse(EnsureArray([reads |-> outcome.reads,
                                      isArray |-> outcome.result.isArray,
                                      length |-> outcome.result.length]))

\* requests arrive in the order of their numbers
MayArrive(r) == IF r = 1 THEN pc[r] = "idle" ELSE pc[r] = "idle" /\ pc[r - 1] # "idle"

\* res.status(200).end(): a response without a body
EmptyResponse(status) ==
    [status |-> status, keys |-> {}, error |-> <<>>, results |-> NoResults,
     count |-> 0, setCookie |-> "none"]

\* if (req.method === 'OPTIONS') return res.status(200).end()
StartOptions(r) ==
    /\ MayArrive(r)
    /\ pc' = [pc EXCEPT ![r] = "done"]
    /\ given' = [given EXCEPT ![r] = [NoneGiven EXCEPT !.method = "OPTIONS"]]
    /\ response' = [response EXCEPT ![r] = EmptyResponse(200)]
    /\ respondedBefore' = [respondedBefore EXCEPT ![r] = Responded]
    /\ UNCHANGED <<remote, snapshot, auth, sqlText, resolved, fetchIdx, page, pageAfter, tableData,
                   alasqlTables, remoteRequested, remoteFailure, loadedBy,
                   engineCall, overlap>>

\* if (req.method !== 'POST') return res.status(405).json(...)
StartWrongMethod(r, method) ==
    /\ MayArrive(r)
    /\ method \notin {"OPTIONS", "POST"}
    /\ pc' = [pc EXCEPT ![r] = "done"]
    /\ given' = [given EXCEPT ![r] = [NoneGiven EXCEPT !.method = method]]
    /\ response' = [response EXCEPT ![r] =
                       ErrorResponse(405, <<"Method not allowed">>, "none")]
    /\ respondedBefore' = [respondedBefore EXCEPT ![r] = Responded]
    /\ UNCHANGED <<remote, snapshot, auth, sqlText, resolved, fetchIdx, page, pageAfter, tableData,
                   alasqlTables, remoteRequested, remoteFailure, loadedBy,
                   engineCall, overlap>>

\* the request has SQL text and neither a session with both storeName and
\* accessToken nor credentials with both storeName and apiPassword: 401
StartNotConnected(r, text) ==
    /\ MayArrive(r)
    /\ \E session \in Sessions, credentials \in BodyCredentials :
          /\ ResolveCredentials(session, credentials) = "none"
          /\ given' = [given EXCEPT ![r] = Given(session, credentials)]
    /\ pc' = [pc EXCEPT ![r] = "done"]
    /\ sqlText' = [sqlText EXCEPT ![r] = text]
    /\ response' = [response EXCEPT ![r] =
                       ErrorResponse(401, <<"Not connected. Please connect your store first.">>,
                                     "none")]
    /\ respondedBefore' = [respondedBefore EXCEPT ![r] = Responded]
    /\ UNCHANGED <<remote, snapshot, auth, resolved, fetchIdx, page, pageAfter, tableData,
                   alasqlTables, remoteRequested, remoteFailure, loadedBy,
                   engineCall, overlap>>

\* the request arrives with no SQL text: 400 before anything else
StartMissingSql(r) ==
    /\ MayArrive(r)
    /\ \E session \in Sessions, credentials \in BodyCredentials :
          given' = [given EXCEPT ![r] = Given(session, credentials)]
    /\ pc' = [pc EXCEPT ![r] = "done"]
    /\ sqlText' = [sqlText EXCEPT ![r] = SqlEmpty]
    /\ response' = [response EXCEPT ![r] =
                       ErrorResponse(400, <<"Missing SQL query">>, "none")]
    /\ respondedBefore' = [respondedBefore EXCEPT ![r] = Responded]
    /\ UNCHANGED <<remote, snapshot, auth, resolved, fetchIdx, page, pageAfter, tableData, alasqlTables,
                   remoteRequested, remoteFailure, loadedBy, engineCall, overlap>>

\* StartNoTable without the check of tables.length: nothing is fetched or
\* loaded, and the statement is executed
StartNoTableUnchecked(r, text) ==
    /\ MayArrive(r)
    /\ ResolvedOf[text] = <<>>
    /\ \E session \in Sessions, credentials \in BodyCredentials :
          /\ ResolveCredentials(session, credentials) # "none"
          /\ given' = [given EXCEPT ![r] = Given(session, credentials)]
          /\ auth' = [auth EXCEPT ![r] = ResolveCredentials(session, credentials)]
    /\ pc' = [pc EXCEPT ![r] = "done"]
    /\ sqlText' = [sqlText EXCEPT ![r] = text]
    /\ \E outcome \in EngineOutcomes(AcceptedOf[text], ScalarOf[text],
                                        SourcesOf[text], alasqlTables) :
          /\ engineCall' = [engineCall EXCEPT ![r] = outcome]
          /\ response' = [response EXCEPT ![r] = ExecuteResponse(outcome, <<>>)]
    /\ respondedBefore' = [respondedBefore EXCEPT ![r] = Responded]
    /\ UNCHANGED <<remote, snapshot, resolved, fetchIdx, page, pageAfter, tableData, alasqlTables,
                   remoteRequested, remoteFailure, loadedBy, overlap>>

\* the SQL text resolves to no table: 400, nothing is fetched
StartNoTable(r, text) ==
    /\ MayArrive(r)
    /\ ResolvedOf[text] = <<>>
    /\ \E session \in Sessions, credentials \in BodyCredentials :
          /\ ResolveCredentials(session, credentials) # "none"
          /\ given' = [given EXCEPT ![r] = Given(session, credentials)]
          /\ auth' = [auth EXCEPT ![r] = ResolveCredentials(session, credentials)]
    /\ pc' = [pc EXCEPT ![r] = "done"]
    /\ sqlText' = [sqlText EXCEPT ![r] = text]
    /\ response' = [response EXCEPT ![r] =
                       ErrorResponse(400, <<"No valid table found in query">>, "none")]
    /\ respondedBefore' = [respondedBefore EXCEPT ![r] = Responded]
    /\ UNCHANGED <<remote, snapshot, resolved, fetchIdx, page, pageAfter, tableData, alasqlTables,
                   remoteRequested, remoteFailure, loadedBy, engineCall, overlap>>

\* the SQL text resolves to tables: the first page of the first table is
\* requested, and the handler waits for it
StartFetch(r, text) ==
    /\ MayArrive(r)
    /\ ResolvedOf[text] # <<>>
    /\ \E session \in Sessions, credentials \in BodyCredentials :
          /\ ResolveCredentials(session, credentials) # "none"
          /\ given' = [given EXCEPT ![r] = Given(session, credentials)]
          /\ auth' = [auth EXCEPT ![r] = ResolveCredentials(session, credentials)]
    /\ pc' = [pc EXCEPT ![r] = "fetching"]
    /\ sqlText' = [sqlText EXCEPT ![r] = text]
    /\ resolved' = [resolved EXCEPT ![r] = ResolvedOf[text]]
    /\ fetchIdx' = [fetchIdx EXCEPT ![r] = 1]
    /\ page' = [page EXCEPT ![r] = 1]
    /\ pageAfter' = [pageAfter EXCEPT ![r] = "null"]
    /\ remoteRequested' = [remoteRequested EXCEPT ![r] = {ResolvedOf[text][1]}]
    /\ overlap' = [q \in Requests |->
                      IF q = r THEN InFlight
                      ELSE IF q \in InFlight THEN overlap[q] \cup {r}
                      ELSE overlap[q]]
    /\ respondedBefore' = [respondedBefore EXCEPT ![r] = Responded]
    /\ UNCHANGED <<remote, snapshot, tableData, response, alasqlTables, remoteFailure, loadedBy,
                   engineCall>>

\* the values of pageInfo.endCursor
EndCursors == {"c1", "c2"}

\* a page with records arrives and the pagination loop goes on: the next page
\* is requested, with the page's endCursor
FetchPageMore(r, endCursor) ==
    /\ pc[r] = "fetching"
    /\ Paginated(resolved[r][fetchIdx[r]])
    /\ page[r] < MaxPages
    /\ page' = [page EXCEPT ![r] = @ + 1]
    /\ pageAfter' = [pageAfter EXCEPT ![r] = endCursor]
    /\ UNCHANGED <<remote, snapshot, given, auth, pc, sqlText, resolved, fetchIdx, tableData, response,
                   alasqlTables, remoteRequested, remoteFailure, loadedBy,
                   engineCall, overlap, respondedBefore>>

\* a page with no nodes and hasNextPage = true arrives: allData.length is
\* what it was, so the loop goes on and the next page is requested, with the
\* page's endCursor
FetchPageEmpty(r, endCursor) ==
    /\ pc[r] = "fetching"
    /\ Paginated(resolved[r][fetchIdx[r]])
    /\ pageAfter' = [pageAfter EXCEPT ![r] = endCursor]
    /\ UNCHANGED <<remote, snapshot, given, auth, pc, sqlText, resolved, fetchIdx, page, tableData, response,
                   alasqlTables, remoteRequested, remoteFailure, loadedBy,
                   engineCall, overlap, respondedBefore>>

\* the data of an earlier fetch of the same resource by the same request,
\* when there is one, in the place of a query of its own
RemoteReadShared(r, baseResource) ==
    IF \E i \in 1..Len(snapshot[r]) : snapshot[r][i].base = baseResource
    THEN snapshot[r][CHOOSE i \in 1..Len(snapshot[r]) :
                        snapshot[r][i].base = baseResource].data
    ELSE remote

\* every call of fetchShopifyData queries graphqlQueries[baseResource] of the
\* remote API itself: it reads the data the store holds at that time
RemoteRead(r, baseResource) == remote

\* what a completed fetch of a table read
Snapshot(r, table) ==
    [table |-> table, base |-> BaseResource(table),
     data |-> RemoteRead(r, BaseResource(table))]

\* tableData[table] = await fetchShopifyData(...): the rows this request fetched
FetchedData(r, t) == [by |-> r, table |-> t]

\* the last page of a table that is not the last one: the first page of the
\* next table is requested
FetchTableDone(r) ==
    /\ pc[r] = "fetching"
    /\ fetchIdx[r] < Len(resolved[r])
    /\ tableData' = [tableData EXCEPT ![r] =
                        Append(@, [table |-> resolved[r][fetchIdx[r]],
                                   data |-> FetchedData(r, resolved[r][fetchIdx[r]])])]
    /\ fetchIdx' = [fetchIdx EXCEPT ![r] = @ + 1]
    /\ snapshot' = [snapshot EXCEPT ![r] =
                       Append(@, Snapshot(r, resolved[r][fetchIdx[r]]))]
    /\ page' = [page EXCEPT ![r] = 1]
    /\ pageAfter' = [pageAfter EXCEPT ![r] = "null"]
    /\ remoteRequested' = [remoteRequested EXCEPT ![r] =
                              @ \cup {resolved[r][fetchIdx[r] + 1]}]
    /\ UNCHANGED <<remote, given, auth, pc, sqlText, resolved, response, alasqlTables, remoteFailure,
                   loadedBy, engineCall, overlap, respondedBefore>>

\* the last page of the last table: with no further await, the tables are
\* loaded into alasql, the statement is executed and the response is sent
FetchLastAndExecute(r) ==
    /\ pc[r] = "fetching"
    /\ fetchIdx[r] = Len(resolved[r])
    /\ LET td == Append(tableData[r],
                        [table |-> resolved[r][fetchIdx[r]],
                         data |-> FetchedData(r, resolved[r][fetchIdx[r]])])
           registry == LoadTables(alasqlTables, td)
       IN  /\ tableData' = [tableData EXCEPT ![r] = td]
           /\ snapshot' = [snapshot EXCEPT ![r] =
                              Append(@, Snapshot(r, resolved[r][fetchIdx[r]]))]
           /\ alasqlTables' = registry
           /\ loadedBy' = [loadedBy EXCEPT ![r] = {td[i].table : i \in 1..Len(td)}]
           /\ \E outcome \in EngineOutcomes(AcceptedOf[sqlText[r]], ScalarOf[sqlText[r]],
                                            SourcesOf[sqlText[r]], registry) :
                 /\ engineCall' = [engineCall EXCEPT ![r] = outcome]
                 /\ response' = [response EXCEPT ![r] = ExecuteResponse(outcome, td)]
    /\ pc' = [pc EXCEPT ![r] = "done"]
    /\ page' = [page EXCEPT ![r] = 0]
    /\ pageAfter' = [pageAfter EXCEPT ![r] = "none"]
    /\ UNCHANGED <<remote, given, auth, sqlText, resolved, fetchIdx, remoteRequested, remoteFailure,
                   overlap, respondedBefore>>

\* a page request fails: the error is wrapped with the table's name, the loop
\* is left, and the outer catch answers
FetchFail(r, failure) ==
    /\ pc[r] = "fetching"
    /\ remoteFailure' = [remoteFailure EXCEPT ![r] =
                            [failed |-> TRUE, status |-> failure.responseStatus,
                             table |-> resolved[r][fetchIdx[r]]]]
    /\ response' = [response EXCEPT ![r] =
                       OuterCatch(WrapFetchError(resolved[r][fetchIdx[r]], failure))]
    /\ pc' = [pc EXCEPT ![r] = "done"]
    /\ page' = [page EXCEPT ![r] = 0]
    /\ pageAfter' = [pageAfter EXCEPT ![r] = "none"]
    /\ UNCHANGED <<remote, snapshot, given, auth, sqlText, resolved, fetchIdx, tableData, alasqlTables,
                   remoteRequested, loadedBy, engineCall, overlap, respondedBefore>>

(***************************************************************************)
(* JavaScript values: the records of the remote API and the rows made of   *)
(* them. A string is the sequence of its characters.                       *)
(***************************************************************************)
Undefined == [k |-> "undefined"]

Null == [k |-> "null"]

NaN == [k |-> "NaN"]

\* the evaluation threw (a TypeError: a property of undefined or null was
\* read, or a method the value does not have was called)
Thrown == [k |-> "thrown"]

Str(s) == [k |-> "string", s |-> s]

Num(n) == [k |-> "number", n |-> n]

Bool(b) == [k |-> "boolean", b |-> b]

Arr(items) == [k |-> "array", items |-> items]

Obj(fields) == [k |-> "object", fields |-> fields]

\* v == null
IsNullish(v) == v \in {Undefined, Null}

\* Boolean(v)
Truthy(v) ==
    CASE v.k = "string"  -> v.s # <<>>
      [] v.k = "number"  -> v.n # 0
      [] v.k = "boolean" -> v.b
      [] v.k \in {"array", "object"} -> TRUE
      [] OTHER -> FALSE

\* a || b
Or(a, b) == IF a = Thrown THEN Thrown ELSE IF Truthy(a) THEN a ELSE b

\* v.name
Get(v, name) ==
    CASE v = Thrown \/ IsNullish(v) -> Thrown
      [] v.k = "object" -> IF name \in DOMAIN v.fields THEN v.fields[name] ELSE Undefined
      [] v.k = "array"  -> IF name = "length" THEN Num(Len(v.items)) ELSE Undefined
      [] v.k = "string" -> IF name = "length" THEN Num(Len(v.s)) ELSE Undefined
      [] OTHER -> Undefined

\* v?.name
OptGet(v, name) == IF IsNullish(v) THEN Undefined ELSE Get(v, name)

\* v[0]
First(v) ==
    CASE v = Thrown \/ IsNullish(v) -> Thrown
      [] v.k = "array" -> IF v.items # <<>> THEN v.items[1] ELSE Undefined
      [] OTHER -> Undefined

\* v?.[0]
OptFirst(v) == IF IsNullish(v) THEN Undefined ELSE First(v)

\* the part of s after its last sep
RECURSIVE AfterLast(_, _)
AfterLast(s, sep) ==
    IF s = <<>> \/ s[Len(s)] = sep THEN <<>>
    ELSE Append(AfterLast(SubSeq(s, 1, Len(s) - 1), sep), s[Len(s)])

\* the part of s before its first sep
RECURSIVE BeforeFirst(_, _)
BeforeFirst(s, sep) ==
    IF s = <<>> \/ s[1] = sep THEN <<>>
    ELSE <<s[1]>> \o BeforeFirst(Tail(s), sep)

\* the part of s after its first sep
RECURSIVE AfterFirst(_, _)
AfterFirst(s, sep) ==
    IF s = <<>> THEN <<>>
    ELSE IF s[1] = sep THEN Tail(s)
    ELSE AfterFirst(Tail(s), sep)

\* v.split('/').slice(1).join('/') in the place of v.split('/').pop()
SplitDropFirst(v) ==
    IF v # Thrown /\ v.k = "string"
    THEN Str(IF "/" \in Range(v.s) THEN AfterFirst(v.s, "/") ELSE v.s)
    ELSE Thrown

\* v.split('/').pop()
SplitPop(v) == IF v # Thrown /\ v.k = "string" THEN Str(AfterLast(v.s, "/")) ELSE Thrown

\* v?.split('/').pop()
OptSplitPop(v) == IF IsNullish(v) THEN Undefined ELSE SplitPop(v)

\* v.split('T')[0]
SplitT0(v) == IF v # Thrown /\ v.k = "string" THEN Str(BeforeFirst(v.s, "T")) ELSE Thrown

\* v?.split('T')[0]
OptSplitT0(v) == IF IsNullish(v) THEN Undefined ELSE SplitT0(v)

DigitChars == <<"0", "1", "2", "3", "4", "5", "6", "7", "8", "9">>

\* the decimal digits of a natural number
RECURSIVE NatToChars(_)
NatToChars(n) ==
    IF n < 10 THEN <<DigitChars[n + 1]>>
    ELSE Append(NatToChars(n \div 10), DigitChars[(n % 10) + 1])

\* String(v); the numbers of the model are whole numbers
StringOf(v) ==
    CASE v.k = "string"    -> v.s
      [] v.k = "number"    -> IF v.n < 0 THEN <<"-">> \o NatToChars(-v.n)
                              ELSE NatToChars(v.n)
      [] v.k = "boolean"   -> IF v.b THEN <<"t", "r", "u", "e">> ELSE <<"f", "a", "l", "s", "e">>
      [] v.k = "undefined" -> <<"u", "n", "d", "e", "f", "i", "n", "e", "d">>
      [] v.k = "null"      -> <<"n", "u", "l", "l">>
      [] v.k = "NaN"       -> <<"N", "a", "N">>
      [] OTHER             -> <<"[", "o", "b", "j", "e", "c", "t", "]">>

\* the number a string of digits denotes
RECURSIVE CharsToNat(_)
CharsToNat(s) ==
    IF s = <<>> THEN 0
    ELSE 10 * CharsToNat(SubSeq(s, 1, Len(s) - 1))
           + (CHOOSE d \in 0..9 : DigitChars[d + 1] = s[Len(s)])

\* the longest prefix of s made of digits
RECURSIVE LeadingDigits(_)
LeadingDigits(s) ==
    IF s = <<>> \/ s[1] \notin Digits THEN <<>>
    ELSE <<s[1]>> \o LeadingDigits(Tail(s))

\* parseFloat(v); the amounts of the model are whole numbers
parseFloat(v) ==
    IF v = Thrown THEN Thrown
    ELSE IF v.k = "number" THEN v
    ELSE IF LeadingDigits(StringOf(v)) = <<>> THEN NaN
    ELSE Num(CharsToNat(LeadingDigits(StringOf(v))))

\* the elements of items joined by sep; null and undefined elements give ''
RECURSIVE JoinItems(_, _)
JoinItems(items, sep) ==
    IF items = <<>> THEN <<>>
    ELSE LET head == IF IsNullish(items[1]) THEN <<>> ELSE StringOf(items[1])
         IN  IF Len(items) = 1 THEN head
             ELSE head \o sep \o JoinItems(Tail(items), sep)

\* v.join(sep)
Join(v, sep) ==
    IF v = Thrown \/ v.k # "array" \/ (\E i \in DOMAIN v.items : v.items[i] = Thrown)
    THEN Thrown
    ELSE Str(JoinItems(v.items, sep))

\* v?.join(sep)
OptJoin(v, sep) == IF IsNullish(v) THEN Undefined ELSE Join(v, sep)

CommaSpace == <<",", " ">>

\* v.map(e => e.name)
MapGet(v, name) ==
    IF v = Thrown \/ v.k # "array" THEN Thrown
    ELSE Arr([i \in DOMAIN v.items |-> Get(v.items[i], name)])

\* v?.map(e => e.name).join(', ')
OptMapGetJoin(v, name) == IF IsNullish(v) THEN Undefined ELSE Join(MapGet(v, name), CommaSpace)

\* `${a}${text}${b}`
Template(a, text, b) ==
    IF a = Thrown \/ b = Thrown THEN Thrown
    ELSE Str(StringOf(a) \o text \o StringOf(b))

\* v?.map(o => `${o.name}: ${o.value}`).join(', ')
OptMapNameValueJoin(v) ==
    IF IsNullish(v) THEN Undefined
    ELSE IF v = Thrown \/ v.k # "array" THEN Thrown
    ELSE Join(Arr([i \in DOMAIN v.items |->
                      Template(Get(v.items[i], "name"), <<":", " ">>,
                               Get(v.items[i], "value"))]), CommaSpace)

\* [a, b].filter(Boolean).join(' ')
FilterBooleanJoin(a, b) ==
    Join(Arr((IF Truthy(a) THEN <<a>> ELSE <<>>) \o (IF Truthy(b) THEN <<b>> ELSE <<>>)),
         <<" ">>)

\* v ? parseFloat(v) : null
ParseFloatOrNull(v) == IF Truthy(v) THEN parseFloat(v) ELSE Null

\* the elements of (v || []) for forEach; no element when v is no array
Elements(v) == IF v # Thrown /\ v.k = "array" THEN v.items ELSE <<>>

\* the row has a column whose evaluation threw
RowThrew(row) == \E key \in DOMAIN row : row[key] = Thrown

\* what a normaliser did: it threw, or it returned rows
Normalized(rows) ==
    IF \E i \in DOMAIN rows : RowThrew(rows[i])
    THEN [threw |-> TRUE, rows |-> <<>>]
    ELSE [threw |-> FALSE, rows |-> rows]

\* a string whose characters do not matter: one piece of text
Text(name) == Str(<<name>>)

\* a global identifier of the remote API: gid://shopify/<type>/<n>
Gid(type, n) == Str(<<"gid:", "/", "/", "shopify", "/", type, "/">> \o NatToChars(n))

(***************************************************************************)
(* transformToTable: the rows of each resource                             *)
(***************************************************************************)
\* case 'orders': the row of one order
OrdersRow(o) ==
    LET journey == Get(o, "customerJourneySummary")
        firstVisit == OptGet(journey, "firstVisit")
        lastVisit == OptGet(journey, "lastVisit")
    IN  [ id |-> OptSplitPop(Get(o, "id")),
          order_number |-> Get(o, "name"),
          email |-> Get(o, "email"),
          created_at |-> Get(o, "createdAt"),
          updated_at |-> Get(o, "updatedAt"),
          cancelled_at |-> Get(o, "cancelledAt"),
          closed_at |-> Get(o, "closedAt"),
          processed_at |-> Get(o, "processedAt"),
          total_price |-> parseFloat(Or(OptGet(OptGet(Get(o, "totalPriceSet"), "shopMoney"), "amount"), Num(0))),
          subtotal_price |-> parseFloat(Or(OptGet(OptGet(Get(o, "subtotalPriceSet"), "shopMoney"), "amount"), Num(0))),
          total_tax |-> parseFloat(Or(OptGet(OptGet(Get(o, "totalTaxSet"), "shopMoney"), "amount"), Num(0))),
          total_shipping |-> parseFloat(Or(OptGet(OptGet(Get(o, "totalShippingPriceSet"), "shopMoney"), "amount"), Num(0))),
          total_discounts |-> parseFloat(Or(OptGet(OptGet(Get(o, "totalDiscountsSet"), "shopMoney"), "amount"), Num(0))),
          total_refunded |-> parseFloat(Or(OptGet(OptGet(Get(o, "totalRefundedSet"), "shopMoney"), "amount"), Num(0))),
          currency |-> OptGet(OptGet(Get(o, "totalPriceSet"), "shopMoney"), "currencyCode"),
          financial_status |-> Get(o, "displayFinancialStatus"),
          fulfillment_status |-> Get(o, "displayFulfillmentStatus"),
          fulfillable |-> Get(o, "fulfillable"),
          note |-> Get(o, "note"),
          tags |-> OptJoin(Get(o, "tags"), CommaSpace),
          source_name |-> Get(o, "sourceName"),
          source_identifier |-> Get(o, "sourceIdentifier"),
          journey_ready |-> OptGet(journey, "ready"),
          days_to_conversion |-> OptGet(journey, "daysToConversion"),
          touchpoints_count |-> OptGet(OptGet(journey, "momentsCount"), "count"),
          first_visit_at |-> OptGet(firstVisit, "occurredAt"),
          first_visit_landing_page |-> OptGet(firstVisit, "landingPage"),
          first_visit_referrer |-> OptGet(firstVisit, "referrerUrl"),
          first_visit_source |-> OptGet(firstVisit, "source"),
          first_visit_source_type |-> OptGet(firstVisit, "sourceType"),
          first_visit_referral_code |-> OptGet(firstVisit, "referralCode"),
          first_utm_source |-> OptGet(OptGet(firstVisit, "utmParameters"), "source"),
          first_utm_medium |-> OptGet(OptGet(firstVisit, "utmParameters"), "medium"),
          first_utm_campaign |-> OptGet(OptGet(firstVisit, "utmParameters"), "campaign"),
          first_utm_content |-> OptGet(OptGet(firstVisit, "utmParameters"), "content"),
          first_utm_term |-> OptGet(OptGet(firstVisit, "utmParameters"), "term"),
          last_visit_at |-> OptGet(lastVisit, "occurredAt"),
          last_visit_landing_page |-> OptGet(lastVisit, "landingPage"),
          last_visit_referrer |-> OptGet(lastVisit, "referrerUrl"),
          last_visit_source |-> OptGet(lastVisit, "source"),
          last_visit_source_type |-> OptGet(lastVisit, "sourceType"),
          last_visit_referral_code |-> OptGet(lastVisit, "referralCode"),
          last_utm_source |-> OptGet(OptGet(lastVisit, "utmParameters"), "source"),
          last_utm_medium |-> OptGet(OptGet(lastVisit, "utmParameters"), "medium"),
          last_utm_campaign |-> OptGet(OptGet(lastVisit, "utmParameters"), "campaign"),
          last_utm_content |-> OptGet(OptGet(lastVisit, "utmParameters"), "content"),
          last_utm_term |-> OptGet(OptGet(lastVisit, "utmParameters"), "term"),
          customer_id |-> OptSplitPop(OptGet(Get(o, "customer"), "id")),
          customer_email |-> OptGet(Get(o, "customer"), "email"),
          customer_first_name |-> OptGet(Get(o, "customer"), "firstName"),
          customer_last_name |-> OptGet(Get(o, "customer"), "lastName"),
          customer_phone |-> OptGet(Get(o, "customer"), "phone"),
          shipping_address1 |-> OptGet(Get(o, "shippingAddress"), "address1"),
          shipping_city |-> OptGet(Get(o, "shippingAddress"), "city"),
          shipping_province |-> OptGet(Get(o, "shippingAddress"), "province"),
          shipping_country |-> OptGet(Get(o, "shippingAddress"), "country"),
          shipping_zip |-> OptGet(Get(o, "shippingAddress"), "zip"),
          billing_address1 |-> OptGet(Get(o, "billingAddress"), "address1"),
          billing_city |-> OptGet(Get(o, "billingAddress"), "city"),
          billing_province |-> OptGet(Get(o, "billingAddress"), "province"),
          billing_country |-> OptGet(Get(o, "billingAddress"), "country"),
          billing_zip |-> OptGet(Get(o, "billingAddress"), "zip"),
          line_items_count |-> Or(OptGet(OptGet(Get(o, "lineItems"), "nodes"), "length"), Num(0)) ]

\* case 'order_sessions': the rows of one order, one per visit it carries
OrderSessionsRows(o) ==
    LET journey == Get(o, "customerJourneySummary")
        orderId == OptSplitPop(Get(o, "id"))
        orderNumber == Get(o, "name")
        fv == Get(journey, "firstVisit")
        lv == Get(journey, "lastVisit")
    IN  (IF Truthy(OptGet(journey, "firstVisit"))
         THEN << [ id |-> Template(orderId, <<"-first">>, Str(<<>>)),
                   order_id |-> orderId,
                   order_number |-> orderNumber,
                   visit_type |-> Text("first"),
                   occurred_at |-> Get(fv, "occurredAt"),
                   landing_page |-> Get(fv, "landingPage"),
                   referrer_url |-> Get(fv, "referrerUrl"),
                   source |-> Get(fv, "source"),
                   source_type |-> Get(fv, "sourceType"),
                   referral_code |-> Get(fv, "referralCode"),
                   utm_source |-> OptGet(Get(fv, "utmParameters"), "source"),
                   utm_medium |-> OptGet(Get(fv, "utmParameters"), "medium"),
                   utm_campaign |-> OptGet(Get(fv, "utmParameters"), "campaign"),
                   utm_content |-> OptGet(Get(fv, "utmParameters"), "content"),
                   utm_term |-> OptGet(Get(fv, "utmParameters"), "term") ] >>
         ELSE <<>>)
        \o
        (IF Truthy(OptGet(journey, "lastVisit"))
         THEN << [ id |-> Template(orderId, <<"-last">>, Str(<<>>)),
                   order_id |-> orderId,
                   order_number |-> orderNumber,
                   visit_type |-> Text("last"),
                   occurred_at |-> Get(lv, "occurredAt"),
                   landing_page |-> Get(lv, "landingPage"),
                   referrer_url |-> Get(lv, "referrerUrl"),
                   source |-> Get(lv, "source"),
                   source_type |-> Get(lv, "sourceType"),
                   referral_code |-> Get(lv, "referralCode"),
                   utm_source |-> OptGet(Get(lv, "utmParameters"), "source"),
                   utm_medium |-> OptGet(Get(lv, "utmParameters"), "medium"),
                   utm_campaign |-> OptGet(Get(lv, "utmParameters"), "campaign"),
                   utm_content |-> OptGet(Get(lv, "utmParameters"), "content"),
                   utm_term |-> OptGet(Get(lv, "utmParameters"), "term") ] >>
         ELSE <<>>)

\* ChildNodes with no child but the first
ChildNodesFirstOnly(parent, field) ==
    LET nodes == Elements(Or(OptGet(Get(parent, field), "nodes"), Arr(<<>>)))
    IN  IF nodes = <<>> THEN <<>> ELSE <<nodes[1]>>

\* (o.lineItems?.nodes || []), and likewise for variants and inventoryLevels
ChildNodes(parent, field) ==
    Elements(Or(OptGet(Get(parent, field), "nodes"), Arr(<<>>)))

\* case 'order_line_items': the rows of one order, one per line item
OrderLineItemsRows(o) ==
    LET nodes == ChildNodes(o, "lineItems")
    IN  [j \in DOMAIN nodes |->
            LET li == nodes[j]
            IN  [ id |-> OptSplitPop(Get(li, "id")),
                  order_id |-> OptSplitPop(Get(o, "id")),
                  order_number |-> Get(o, "name"),
                  title |-> Get(li, "title"),
                  quantity |-> Get(li, "quantity"),
                  sku |-> Or(Get(li, "sku"), OptGet(Get(li, "variant"), "sku")),
                  vendor |-> Get(li, "vendor"),
                  unit_price |-> parseFloat(Or(OptGet(OptGet(Get(li, "originalUnitPriceSet"), "shopMoney"), "amount"), Num(0))),
                  discounted_price |-> parseFloat(Or(OptGet(OptGet(Get(li, "discountedUnitPriceSet"), "shopMoney"), "amount"), Num(0))),
                  variant_id |-> OptSplitPop(OptGet(Get(li, "variant"), "id")),
                  variant_title |-> OptGet(Get(li, "variant"), "title"),
                  product_id |-> OptSplitPop(OptGet(Get(li, "product"), "id")),
                  product_title |-> OptGet(Get(li, "product"), "title") ]]

\* case 'products': the row of one product
ProductsRow(p) ==
    [ id |-> OptSplitPop(Get(p, "id")),
      title |-> Get(p, "title"),
      handle |-> Get(p, "handle"),
      description |-> Get(p, "description"),
      vendor |-> Get(p, "vendor"),
      product_type |-> Get(p, "productType"),
      tags |-> OptJoin(Get(p, "tags"), CommaSpace),
      status |-> Get(p, "status"),
      created_at |-> Get(p, "createdAt"),
      updated_at |-> Get(p, "updatedAt"),
      published_at |-> Get(p, "publishedAt"),
      total_inventory |-> Get(p, "totalInventory"),
      tracks_inventory |-> Get(p, "tracksInventory"),
      min_price |-> parseFloat(Or(OptGet(OptGet(Get(p, "priceRangeV2"), "minVariantPrice"), "amount"), Num(0))),
      max_price |-> parseFloat(Or(OptGet(OptGet(Get(p, "priceRangeV2"), "maxVariantPrice"), "amount"), Num(0))),
      currency |-> OptGet(OptGet(Get(p, "priceRangeV2"), "minVariantPrice"), "currencyCode"),
      options |-> OptMapGetJoin(Get(p, "options"), "name"),
      image_url |-> OptGet(Get(p, "featuredImage"), "url"),
      seo_title |-> OptGet(Get(p, "seo"), "title"),
      seo_description |-> OptGet(Get(p, "seo"), "description"),
      collections |-> OptMapGetJoin(OptGet(Get(p, "collections"), "nodes"), "title"),
      variants_count |-> Or(OptGet(OptGet(Get(p, "variants"), "nodes"), "length"), Num(0)) ]

\* case 'product_variants': the rows of one product, one per variant
ProductVariantsRows(p) ==
    LET nodes == ChildNodes(p, "variants")
    IN  [j \in DOMAIN nodes |->
            LET v == nodes[j]
            IN  [ id |-> OptSplitPop(Get(v, "id")),
                  product_id |-> OptSplitPop(Get(p, "id")),
                  product_title |-> Get(p, "title"),
                  title |-> Get(v, "title"),
                  sku |-> Get(v, "sku"),
                  barcode |-> Get(v, "barcode"),
                  price |-> parseFloat(Or(Get(v, "price"), Num(0))),
                  compare_at_price |-> ParseFloatOrNull(Get(v, "compareAtPrice")),
                  inventory_quantity |-> Get(v, "inventoryQuantity"),
                  available_for_sale |-> Get(v, "availableForSale"),
                  weight |-> Get(v, "weight"),
                  weight_unit |-> Get(v, "weightUnit"),
                  options |-> OptMapNameValueJoin(Get(v, "selectedOptions")),
                  inventory_item_id |-> OptSplitPop(OptGet(Get(v, "inventoryItem"), "id")),
                  inventory_tracked |-> OptGet(Get(v, "inventoryItem"), "tracked") ]]

\* case 'customers': the row of one customer
CustomersRow(c) ==
    [ id |-> OptSplitPop(Get(c, "id")),
      email |-> Get(c, "email"),
      first_name |-> Get(c, "firstName"),
      last_name |-> Get(c, "lastName"),
      full_name |-> FilterBooleanJoin(Get(c, "firstName"), Get(c, "lastName")),
      phone |-> Get(c, "phone"),
      created_at |-> Get(c, "createdAt"),
      updated_at |-> Get(c, "updatedAt"),
      note |-> Get(c, "note"),
      tags |-> OptJoin(Get(c, "tags"), CommaSpace),
      state |-> Get(c, "state"),
      tax_exempt |-> Get(c, "taxExempt"),
      verified_email |-> Get(c, "verifiedEmail"),
      valid_email |-> Get(c, "validEmailAddress"),
      orders_count |-> Get(c, "numberOfOrders"),
      total_spent |-> parseFloat(Or(OptGet(Get(c, "amountSpent"), "amount"), Num(0))),
      currency |-> OptGet(Get(c, "amountSpent"), "currencyCode"),
      address1 |-> OptGet(Get(c, "defaultAddress"), "address1"),
      address2 |-> OptGet(Get(c, "defaultAddress"), "address2"),
      city |-> OptGet(Get(c, "defaultAddress"), "city"),
      province |-> OptGet(Get(c, "defaultAddress"), "province"),
      province_code |-> OptGet(Get(c, "defaultAddress"), "provinceCode"),
      country |-> OptGet(Get(c, "defaultAddress"), "country"),
      country_code |-> OptGet(Get(c, "defaultAddress"), "countryCodeV2"),
      zip |-> OptGet(Get(c, "defaultAddress"), "zip"),
      company |-> OptGet(Get(c, "defaultAddress"), "company") ]

\* case 'collections': the row of one collection
CollectionsRow(c) ==
    [ id |-> OptSplitPop(Get(c, "id")),
      title |-> Get(c, "title"),
      handle |-> Get(c, "handle"),
      description |-> Get(c, "description"),
      sort_order |-> Get(c, "sortOrder"),
      products_count |-> OptGet(Get(c, "productsCount"), "count"),
      updated_at |-> Get(c, "updatedAt"),
      image_url |-> OptGet(Get(c, "image"), "url"),
      seo_title |-> OptGet(Get(c, "seo"), "title"),
      seo_description |-> OptGet(Get(c, "seo"), "description") ]

\* case 'inventory_items': the row of one inventory item
InventoryItemsRow(i) ==
    [ id |-> OptSplitPop(Get(i, "id")),
      sku |-> Get(i, "sku"),
      tracked |-> Get(i, "tracked"),
      created_at |-> Get(i, "createdAt"),
      updated_at |-> Get(i, "updatedAt"),
      country_of_origin |-> Get(i, "countryCodeOfOrigin"),
      province_of_origin |-> Get(i, "provinceCodeOfOrigin"),
      hs_code |-> Get(i, "harmonizedSystemCode"),
      variant_id |-> OptSplitPop(OptGet(Get(i, "variant"), "id")),
      variant_title |-> OptGet(Get(i, "variant"), "title"),
      product_id |-> OptSplitPop(OptGet(OptGet(Get(i, "variant"), "product"), "id")),
      product_title |-> OptGet(OptGet(Get(i, "variant"), "product"), "title") ]

\* case 'inventory_levels': the rows of one inventory item, one per level
InventoryLevelsRows(i) ==
    LET nodes == ChildNodes(i, "inventoryLevels")
    IN  [j \in DOMAIN nodes |->
            LET l == nodes[j]
            IN  [ id |-> OptSplitPop(Get(l, "id")),
                  inventory_item_id |-> OptSplitPop(Get(i, "id")),
                  sku |-> Get(i, "sku"),
                  location_id |-> OptSplitPop(OptGet(Get(l, "location"), "id")),
                  location_name |-> OptGet(Get(l, "location"), "name"),
                  available |-> Get(l, "available"),
                  product_title |-> OptGet(OptGet(Get(i, "variant"), "product"), "title"),
                  variant_title |-> OptGet(Get(i, "variant"), "title") ]]

\* case 'locations': the row of one location
LocationsRow(l) ==
    [ id |-> OptSplitPop(Get(l, "id")),
      name |-> Get(l, "name"),
      address1 |-> OptGet(Get(l, "address"), "address1"),
      address2 |-> OptGet(Get(l, "address"), "address2"),
      city |-> OptGet(Get(l, "address"), "city"),
      province |-> OptGet(Get(l, "address"), "province"),
      country |-> OptGet(Get(l, "address"), "country"),
      zip |-> OptGet(Get(l, "address"), "zip"),
      is_active |-> Get(l, "isActive"),
      fulfills_online_orders |-> Get(l, "fulfillsOnlineOrders"),
      has_active_inventory |-> Get(l, "hasActiveInventory") ]

\* case 'draft_orders': the row of one draft order
DraftOrdersRow(d) ==
    [ id |-> OptSplitPop(Get(d, "id")),
      name |-> Get(d, "name"),
      email |-> Get(d, "email"),
      created_at |-> Get(d, "createdAt"),
      updated_at |-> Get(d, "updatedAt"),
      status |-> Get(d, "status"),
      total_price |-> parseFloat(Or(OptGet(OptGet(Get(d, "totalPriceSet"), "shopMoney"), "amount"), Num(0))),
      subtotal_price |-> parseFloat(Or(OptGet(OptGet(Get(d, "subtotalPriceSet"), "shopMoney"), "amount"), Num(0))),
      total_tax |-> parseFloat(Or(OptGet(OptGet(Get(d, "totalTaxSet"), "shopMoney"), "amount"), Num(0))),
      currency |-> OptGet(OptGet(Get(d, "totalPriceSet"), "shopMoney"), "currencyCode"),
      customer_id |-> OptSplitPop(OptGet(Get(d, "customer"), "id")),
      customer_email |-> OptGet(Get(d, "customer"), "email"),
      customer_first_name |-> OptGet(Get(d, "customer"), "firstName"),
      customer_last_name |-> OptGet(Get(d, "customer"), "lastName"),
      line_items_count |-> Or(OptGet(OptGet(Get(d, "lineItems"), "nodes"), "length"), Num(0)) ]

\* case 'shop': const s = data; the one row made of s
ShopRow(s) ==
    [ id |-> OptSplitPop(Get(s, "id")),
      name |-> Get(s, "name"),
      email |-> Get(s, "email"),
      myshopify_domain |-> Get(s, "myshopifyDomain"),
      domain |-> OptGet(Get(s, "primaryDomain"), "url"),
      currency |-> Get(s, "currencyCode"),
      weight_unit |-> Get(s, "weightUnit"),
      timezone |-> Get(s, "timezoneAbbreviation"),
      plan_name |-> OptGet(Get(s, "plan"), "displayName"),
      is_partner_dev |-> OptGet(Get(s, "plan"), "partnerDevelopment"),
      is_plus |-> OptGet(Get(s, "plan"), "shopifyPlus") ]

\* the columns of each table in the answer to getSchema
getSchemaColumns ==
    [ orders |->
          << "id", "order_number", "email", "created_at", "total_price",
             "subtotal_price", "total_tax", "total_shipping",
             "total_discounts", "total_refunded", "currency",
             "financial_status", "fulfillment_status", "source_name",
             "source_identifier", "days_to_conversion",
             "touchpoints_count", "first_visit_at",
             "first_visit_landing_page", "first_visit_referrer",
             "first_visit_source", "first_visit_source_type",
             "first_visit_referral_code", "first_utm_source",
             "first_utm_medium", "first_utm_campaign", "first_utm_content",
             "first_utm_term", "last_visit_at", "last_visit_landing_page",
             "last_visit_referrer", "last_visit_source",
             "last_visit_source_type", "last_utm_source",
             "last_utm_medium", "last_utm_campaign", "last_utm_content",
             "last_utm_term", "customer_id", "customer_email",
             "shipping_city", "shipping_country" >>,
      order_sessions |->
          << "id", "order_id", "order_number", "visit_type", "occurred_at",
             "landing_page", "referrer_url", "source", "source_type",
             "referral_code", "utm_source", "utm_medium", "utm_campaign",
             "utm_content", "utm_term" >>,
      order_line_items |->
          << "id", "order_id", "order_number", "title", "quantity", "sku",
             "vendor", "unit_price", "discounted_price", "variant_id",
             "variant_title", "product_id", "product_title" >>,
      products |->
          << "id", "title", "handle", "description", "vendor",
             "product_type", "tags", "status", "created_at", "updated_at",
             "total_inventory", "min_price", "max_price", "currency",
             "image_url", "variants_count" >>,
      product_variants |->
          << "id", "product_id", "product_title", "title", "sku",
             "barcode", "price", "compare_at_price", "inventory_quantity",
             "available_for_sale", "weight", "weight_unit", "options" >>,
      customers |->
          << "id", "email", "first_name", "last_name", "full_name",
             "phone", "created_at", "orders_count", "total_spent",
             "currency", "city", "province", "country", "zip" >>,
      collections |->
          << "id", "title", "handle", "description", "sort_order",
             "products_count", "updated_at", "image_url" >>,
      inventory_items |->
          << "id", "sku", "tracked", "created_at", "country_of_origin",
             "variant_id", "product_title" >>,
      inventory_levels |->
          << "id", "inventory_item_id", "sku", "location_id",
             "location_name", "available", "product_title" >>,
      locations |->
          << "id", "name", "address1", "city", "province", "country",
             "zip", "is_active", "fulfills_online_orders" >>,
      draft_orders |->
          << "id", "name", "email", "created_at", "status", "total_price",
             "customer_email" >>,
      shop |->
          << "id", "name", "email", "myshopify_domain", "domain",
             "currency", "plan_name" >> ]

\* a record of orders with every field of the query present
FullOrder ==
    Obj([ id |-> Gid("Order", 1), name |-> Text("name"), email |-> Text("email"),
          createdAt |-> Text("createdAt"), updatedAt |-> Text("updatedAt"),
          cancelledAt |-> Text("cancelledAt"), closedAt |-> Text("closedAt"),
          processedAt |-> Text("processedAt"),
          totalPriceSet |-> Obj([ shopMoney |-> Obj([ amount |-> Str(<<"1", "2">>),
                      currencyCode |-> Text("currencyCode") ]) ]),
          subtotalPriceSet |-> Obj([ shopMoney |-> Obj([ amount |-> Str(<<"1", "2">>),
                      currencyCode |-> Text("currencyCode") ]) ]),
          totalTaxSet |-> Obj([ shopMoney |-> Obj([ amount |-> Str(<<"1", "2">>),
                      currencyCode |-> Text("currencyCode") ]) ]),
          totalShippingPriceSet |-> Obj([ shopMoney |-> Obj([ amount |-> Str(<<"1", "2">>),
                      currencyCode |-> Text("currencyCode") ]) ]),
          totalDiscountsSet |-> Obj([ shopMoney |-> Obj([ amount |-> Str(<<"1", "2">>),
                      currencyCode |-> Text("currencyCode") ]) ]),
          totalRefundedSet |-> Obj([ shopMoney |-> Obj([ amount |-> Str(<<"1", "2">>),
                      currencyCode |-> Text("currencyCode") ]) ]),
          displayFinancialStatus |-> Text("displayFinancialStatus"),
          displayFulfillmentStatus |-> Text("displayFulfillmentStatus"),
          fulfillable |-> Bool(TRUE), note |-> Text("note"),
          tags |-> Arr(<<Text("a"), Text("b")>>), sourceName |-> Text("sourceName"),
          sourceIdentifier |-> Text("sourceIdentifier"),
          customerJourneySummary |-> Obj([ ready |-> Bool(TRUE), daysToConversion |-> Num(1),
                momentsCount |-> Obj([ count |-> Num(1) ]),
                firstVisit |-> Obj([ occurredAt |-> Text("occurredAt"),
                      landingPage |-> Text("landingPage"),
                      landingPageHtml |-> Text("landingPageHtml"),
                      referrerUrl |-> Text("referrerUrl"), source |-> Text("source"),
                      sourceType |-> Text("sourceType"),
                      referralCode |-> Text("referralCode"),
                      referralInfoHtml |-> Text("referralInfoHtml"),
                      utmParameters |-> Obj([ source |-> Text("source"), medium |-> Text("medium"),
                            campaign |-> Text("campaign"), content |-> Text("content"),
                            term |-> Text("term") ]) ]),
                lastVisit |-> Obj([ occurredAt |-> Text("occurredAt"),
                      landingPage |-> Text("landingPage"),
                      landingPageHtml |-> Text("landingPageHtml"),
                      referrerUrl |-> Text("referrerUrl"), source |-> Text("source"),
                      sourceType |-> Text("sourceType"),
                      referralCode |-> Text("referralCode"),
                      utmParameters |-> Obj([ source |-> Text("source"), medium |-> Text("medium"),
                            campaign |-> Text("campaign"), content |-> Text("content"),
                            term |-> Text("term") ]) ]) ]),
          customer |-> Obj([ id |-> Gid("Customer", 1), firstName |-> Text("firstName"),
                lastName |-> Text("lastName"), email |-> Text("email"),
                phone |-> Text("phone") ]),
          shippingAddress |-> Obj([ address1 |-> Text("address1"), address2 |-> Text("address2"),
                city |-> Text("city"), province |-> Text("province"),
                country |-> Text("country"), zip |-> Text("zip") ]),
          billingAddress |-> Obj([ address1 |-> Text("address1"), address2 |-> Text("address2"),
                city |-> Text("city"), province |-> Text("province"),
                country |-> Text("country"), zip |-> Text("zip") ]),
          lineItems |-> Obj([nodes |-> Arr(<< Obj([ id |-> Gid("LineItem", 1), title |-> Text("title"), quantity |-> Num(1),
                sku |-> Text("sku"), vendor |-> Text("vendor"),
                originalUnitPriceSet |-> Obj([ shopMoney |-> Obj([ amount |-> Str(<<"1", "2">>) ]) ]),
                discountedUnitPriceSet |-> Obj([ shopMoney |-> Obj([ amount |-> Str(<<"1", "2">>) ]) ]),
                variant |-> Obj([ id |-> Gid("ProductVariant", 1), title |-> Text("title"),
                      sku |-> Text("sku") ]),
                product |-> Obj([ id |-> Gid("Product", 1), title |-> Text("title") ]) ]) >>)]) ])

\* a record of products with every field of the query present
FullProduct ==
    Obj([ id |-> Gid("Product", 1), title |-> Text("title"), handle |-> Text("handle"),
          descriptionHtml |-> Text("descriptionHtml"),
          description |-> Text("description"), vendor |-> Text("vendor"),
          productType |-> Text("productType"), tags |-> Arr(<<Text("a"), Text("b")>>),
          status |-> Text("status"), createdAt |-> Text("createdAt"),
          updatedAt |-> Text("updatedAt"), publishedAt |-> Text("publishedAt"),
          totalInventory |-> Num(1), tracksInventory |-> Bool(TRUE),
          priceRangeV2 |-> Obj([ minVariantPrice |-> Obj([ amount |-> Str(<<"1", "2">>),
                      currencyCode |-> Text("currencyCode") ]),
                maxVariantPrice |-> Obj([ amount |-> Str(<<"1", "2">>),
                      currencyCode |-> Text("currencyCode") ]) ]),
          options |-> Arr(<< Obj([ name |-> Text("name"), values |-> Arr(<<Text("a"), Text("b")>>) ]) >>),
          variants |-> Obj([nodes |-> Arr(<< Obj([ id |-> Gid("ProductVariant", 1), title |-> Text("title"),
                sku |-> Text("sku"), barcode |-> Text("barcode"),
                price |-> Str(<<"1", "2">>), compareAtPrice |-> Str(<<"1", "2">>),
                inventoryQuantity |-> Num(1), availableForSale |-> Bool(TRUE),
                weight |-> Num(1), weightUnit |-> Text("weightUnit"),
                selectedOptions |-> Arr(<< Obj([ name |-> Text("name"), value |-> Text("value") ]) >>),
                inventoryItem |-> Obj([ id |-> Gid("InventoryItem", 1), tracked |-> Bool(TRUE) ]) ]) >>)]),
          images |-> Obj([nodes |-> Arr(<< Obj([ url |-> Text("url"), altText |-> Text("altText") ]) >>)]),
          featuredImage |-> Obj([ url |-> Text("url"), altText |-> Text("altText") ]),
          seo |-> Obj([ title |-> Text("title"), description |-> Text("description") ]),
          collections |-> Obj([nodes |-> Arr(<< Obj([ id |-> Gid("Collection", 1), title |-> Text("title") ]) >>)]) ])

\* a record of customers with every field of the query present
FullCustomer ==
    Obj([ id |-> Gid("Customer", 1), firstName |-> Text("firstName"),
          lastName |-> Text("lastName"), email |-> Text("email"),
          phone |-> Text("phone"), createdAt |-> Text("createdAt"),
          updatedAt |-> Text("updatedAt"), note |-> Text("note"),
          tags |-> Arr(<<Text("a"), Text("b")>>), state |-> Text("state"),
          taxExempt |-> Bool(TRUE), verifiedEmail |-> Bool(TRUE),
          validEmailAddress |-> Bool(TRUE), numberOfOrders |-> Num(1),
          amountSpent |-> Obj([ amount |-> Str(<<"1", "2">>), currencyCode |-> Text("currencyCode") ]),
          defaultAddress |-> Obj([ address1 |-> Text("address1"), address2 |-> Text("address2"),
                city |-> Text("city"), province |-> Text("province"),
                provinceCode |-> Text("provinceCode"), country |-> Text("country"),
                countryCodeV2 |-> Text("countryCodeV2"), zip |-> Text("zip"),
                company |-> Text("company"), phone |-> Text("phone") ]),
          addresses |-> Arr(<< Obj([ address1 |-> Text("address1"), address2 |-> Text("address2"),
                city |-> Text("city"), province |-> Text("province"),
                country |-> Text("country"), zip |-> Text("zip") ]) >>),
          orders |-> Obj([nodes |-> Arr(<< Obj([ id |-> Gid("Order", 1), name |-> Text("name"),
                totalPriceSet |-> Obj([ shopMoney |-> Obj([ amount |-> Str(<<"1", "2">>) ]) ]) ]) >>)]) ])

\* a record of collections with every field of the query present
FullCollection ==
    Obj([ id |-> Gid("Collection", 1), title |-> Text("title"),
          handle |-> Text("handle"), description |-> Text("description"),
          descriptionHtml |-> Text("descriptionHtml"), sortOrder |-> Text("sortOrder"),
          productsCount |-> Obj([ count |-> Num(1) ]), updatedAt |-> Text("updatedAt"),
          image |-> Obj([ url |-> Text("url"), altText |-> Text("altText") ]),
          seo |-> Obj([ title |-> Text("title"), description |-> Text("description") ]) ])

\* a record of inventoryItems with every field of the query present
FullInventoryItem ==
    Obj([ id |-> Gid("InventoryItem", 1), sku |-> Text("sku"), tracked |-> Bool(TRUE),
          createdAt |-> Text("createdAt"), updatedAt |-> Text("updatedAt"),
          countryCodeOfOrigin |-> Text("countryCodeOfOrigin"),
          provinceCodeOfOrigin |-> Text("provinceCodeOfOrigin"),
          harmonizedSystemCode |-> Text("harmonizedSystemCode"),
          inventoryLevels |-> Obj([nodes |-> Arr(<< Obj([ id |-> Gid("InventoryLevel", 1), available |-> Num(1),
                location |-> Obj([ id |-> Gid("Location", 1), name |-> Text("name") ]) ]) >>)]),
          variant |-> Obj([ id |-> Gid("ProductVariant", 1), title |-> Text("title"),
                product |-> Obj([ id |-> Gid("Product", 1), title |-> Text("title") ]) ]) ])

\* a record of locations with every field of the query present
FullLocation ==
    Obj([ id |-> Gid("Location", 1), name |-> Text("name"),
          address |-> Obj([ address1 |-> Text("address1"), address2 |-> Text("address2"),
                city |-> Text("city"), province |-> Text("province"),
                country |-> Text("country"), zip |-> Text("zip") ]),
          isActive |-> Bool(TRUE), fulfillsOnlineOrders |-> Bool(TRUE),
          hasActiveInventory |-> Bool(TRUE) ])

\* a record of draftOrders with every field of the query present
FullDraftOrder ==
    Obj([ id |-> Gid("DraftOrder", 1), name |-> Text("name"), email |-> Text("email"),
          createdAt |-> Text("createdAt"), updatedAt |-> Text("updatedAt"),
          status |-> Text("status"),
          totalPriceSet |-> Obj([ shopMoney |-> Obj([ amount |-> Str(<<"1", "2">>),
                      currencyCode |-> Text("currencyCode") ]) ]),
          subtotalPriceSet |-> Obj([ shopMoney |-> Obj([ amount |-> Str(<<"1", "2">>),
                      currencyCode |-> Text("currencyCode") ]) ]),
          totalTaxSet |-> Obj([ shopMoney |-> Obj([ amount |-> Str(<<"1", "2">>),
                      currencyCode |-> Text("currencyCode") ]) ]),
          customer |-> Obj([ id |-> Gid("Customer", 1), firstName |-> Text("firstName"),
                lastName |-> Text("lastName"), email |-> Text("email") ]),
          lineItems |-> Obj([nodes |-> Arr(<< Obj([ id |-> Gid("LineItem", 1), title |-> Text("title"), quantity |-> Num(1),
                originalUnitPriceSet |-> Obj([ shopMoney |-> Obj([ amount |-> Str(<<"1", "2">>) ]) ]) ]) >>)]) ])

\* a record of shop with every field of the query present
FullShop ==
    Obj([ id |-> Gid("Shop", 1), name |-> Text("name"), email |-> Text("email"),
          myshopifyDomain |-> Text("myshopifyDomain"),
          primaryDomain |-> Obj([ url |-> Text("url"), host |-> Text("host") ]),
          currencyCode |-> Text("currencyCode"), weightUnit |-> Text("weightUnit"),
          timezoneAbbreviation |-> Text("timezoneAbbreviation"),
          billingAddress |-> Obj([ address1 |-> Text("address1"), city |-> Text("city"),
                province |-> Text("province"), country |-> Text("country"),
                zip |-> Text("zip") ]),
          plan |-> Obj([ displayName |-> Text("displayName"), partnerDevelopment |-> Bool(TRUE),
                shopifyPlus |-> Bool(TRUE) ]) ])

(***************************************************************************)
(* transformToTable and the data fetchShopifyData gives it                 *)
(***************************************************************************)
RECURSIVE Flatten(_)
Flatten(ss) == IF ss = <<>> THEN <<>> ELSE ss[1] \o Flatten(Tail(ss))

\* data.map(...) and data.forEach(...): no function when data is no array;
\* otherwise the rows made of the elements
OverArray(data, rows) ==
    IF data.k # "array" THEN [threw |-> TRUE, rows |-> <<>>] ELSE Normalized(rows)

transformToTable(resource, data) ==
    LET items == Elements(data)
    IN  CASE resource = "orders" ->
                OverArray(data, [e \in DOMAIN items |-> OrdersRow(items[e])])
          [] resource = "order_sessions" ->
                OverArray(data, Flatten([e \in DOMAIN items |-> OrderSessionsRows(items[e])]))
          [] resource = "order_line_items" ->
                OverArray(data, Flatten([e \in DOMAIN items |-> OrderLineItemsRows(items[e])]))
          [] resource = "products" ->
                OverArray(data, [e \in DOMAIN items |-> ProductsRow(items[e])])
          [] resource = "product_variants" ->
                OverArray(data, Flatten([e \in DOMAIN items |-> ProductVariantsRows(items[e])]))
          [] resource = "customers" ->
                OverArray(data, [e \in DOMAIN items |-> CustomersRow(items[e])])
          [] resource = "collections" ->
                OverArray(data, [e \in DOMAIN items |-> CollectionsRow(items[e])])
          [] resource = "inventory_items" ->
                OverArray(data, [e \in DOMAIN items |-> InventoryItemsRow(items[e])])
          [] resource = "inventory_levels" ->
                OverArray(data, Flatten([e \in DOMAIN items |-> InventoryLevelsRows(items[e])]))
          [] resource = "locations" ->
                OverArray(data, [e \in DOMAIN items |-> LocationsRow(items[e])])
          [] resource = "draft_orders" ->
                OverArray(data, [e \in DOMAIN items |-> DraftOrdersRow(items[e])])
          [] resource = "shop" -> Normalized(<<ShopRow(data)>>)
          [] OTHER -> [threw |-> FALSE, rows |-> items]

\* the non-paginated branch: transformToTable(resource, data.nodes || [data])
NonPaginatedData(data) == Or(Get(data, "nodes"), Arr(<<data>>))

\* what fetchShopifyData returns for the data of the remote API: the nodes
\* accumulated (allData) of a paginated resource, response.data.data[key] of
\* the others
FetchedRows(resource, remoteData) ==
    IF Paginated(resource)
    THEN transformToTable(resource, remoteData)
    ELSE IF NonPaginatedData(remoteData) = Thrown
    THEN [threw |-> TRUE, rows |-> <<>>]
    ELSE transformToTable(resource, NonPaginatedData(remoteData))

\* what a normaliser returned, before it ran
NoOut == [threw |-> FALSE, rows |-> <<>>]

NormOff ==
    /\ nPc = "off"
    /\ nVariant = "none"
    /\ nResource = "none"
    /\ nData = Undefined
    /\ nOut = NoOut

(***************************************************************************)
(* fetchShopifyData: the pagination loop                                   *)
(***************************************************************************)
\* async function fetchShopifyData(storeName, accessToken, resource, maxRecords = 250)
maxRecords == 250

\* the page size of Math.min(50, maxRecords - allData.length)
MaxFirst == 50

\* every record of a fetch carries the same number of nested children
\* (line items, variants, inventory levels, visits), at most MaxChildren
MaxChildren == 2

Min(a, b) == IF a <= b THEN a ELSE b

\* first: 50, whatever has been accumulated
PageFirstFixed(accumulated) == MaxFirst

\* first: Math.min(50, maxRecords - allData.length)
PageFirst(accumulated) == Min(MaxFirst, maxRecords - accumulated)

\* the tables whose rows are the nested children of the fetched records
DerivedTables == {"order_line_items", "order_sessions", "product_variants", "inventory_levels"}

\* transformToTable(resource, data).length: one row per nested child for a
\* derived table, one row per record for the others
TransformedLength(resource, data) ==
    IF resource \in DerivedTables THEN data.length * data.childrenEach ELSE data.length

\* the numbers of records with which the remote API answers a request for
\* first records: none, one, one fewer than requested, or all of them
PageAnswers(first) == {0, 1, first - 1, first}

NoPageRequest == [first |-> 0, accumulated |-> 0, after |-> Undefined]

NoPageResponse == [received |-> FALSE, endCursor |-> Undefined]

NoData == [length |-> 0, childrenEach |-> 0]

FetchOff ==
    /\ fetchPc = "off"
    /\ fetchResource = "none"
    /\ allData = NoData
    /\ hasNextPage = FALSE
    /\ lastRequest = NoPageRequest
    /\ cursor = Null
    /\ outstanding = 0
    /\ lastResponse = NoPageResponse
    /\ fetchCount = 0

FnOff ==
    /\ fnPc = "off"
    /\ fnName = "none"
    /\ fnArgs = <<>>
    /\ fnResult = Undefined

StripOff ==
    /\ stripPc = "off"
    /\ stripInput = Undefined
    /\ stripped = <<>>

InitLib == FetchOff /\ NormOff /\ FnOff /\ StripOff

\* result.pageInfo of a page response: absent, or an object with hasNextPage
\* and endCursor
PageInfos ==
    {Undefined} \cup
    {Obj([hasNextPage |-> Bool(more), endCursor |-> c]) :
        more \in BOOLEAN, c \in {Null, Str(<<"c1">>), Str(<<"c2">>)}}

\* cursor = null whatever the response holds
NextCursorNull(pageInfo) == Null

\* cursor = result.pageInfo?.endCursor
NextCursor(pageInfo) == OptGet(pageInfo, "endCursor")

\* a turn of while (hasNextPage && allData.length < maxRecords) up to its
\* await: the page is requested with variables.first and variables.after
FetchRequest ==
    /\ fetchPc = "loop"
    /\ hasNextPage /\ allData.length < maxRecords
    /\ lastRequest' = [first |-> PageFirst(allData.length),
                       accumulated |-> allData.length,
                       after |-> cursor]
    /\ outstanding' = outstanding + 1
    /\ fetchPc' = "awaiting"
    /\ UNCHANGED <<fetchResource, allData, hasNextPage, cursor, lastResponse, fetchCount>>

\* the rest of the turn: the remote API answers with nodes records, at most
\* the first requested, and with pageInfo
FetchPage(nodes, pageInfo) ==
    /\ fetchPc = "awaiting"
    /\ nodes \in PageAnswers(lastRequest.first)
    /\ outstanding' = outstanding - 1
    /\ lastResponse' = [received |-> TRUE,
                        endCursor |-> IF pageInfo = Undefined THEN Undefined
                                      ELSE pageInfo.fields.endCursor]
    /\ allData' = [allData EXCEPT !.length = @ + nodes]
    /\ hasNextPage' = (/\ Truthy(OptGet(pageInfo, "hasNextPage"))
                       /\ allData.length + nodes < maxRecords)
    /\ cursor' = NextCursor(pageInfo)
    /\ fetchPc' = "loop"
    /\ UNCHANGED <<fetchResource, lastRequest, fetchCount>>

\* the loop ends: return transformToTable(resource, allData); the handler
\* loads the rows and answers SELECT * FROM resource with all of them
FetchReturn ==
    /\ fetchPc = "loop"
    /\ ~(hasNextPage /\ allData.length < maxRecords)
    /\ fetchPc' = "returned"
    /\ fetchCount' = TransformedLength(fetchResource, allData)
    /\ UNCHANGED <<fetchResource, allData, hasNextPage, lastRequest, cursor, outstanding,
                   lastResponse>>

(***************************************************************************)
(* The regex-parser (REST) variant of the handler                          *)
(***************************************************************************)
\* String.prototype.trim
RECURSIVE TrimLeft(_)
TrimLeft(s) == IF s # <<>> /\ IsSpaceChar(s[1]) THEN TrimLeft(Tail(s)) ELSE s

RECURSIVE TrimRight(_)
TrimRight(s) ==
    IF s # <<>> /\ IsSpaceChar(s[Len(s)]) THEN TrimRight(SubSeq(s, 1, Len(s) - 1)) ELSE s

trim(s) == TrimRight(TrimLeft(s))

\* the positions at which /from\s+(\w+)/ matches in query, with the start of
\* the captured word
FromMatches(query) ==
    {<<i, j>> \in (1..Len(query)) \X (1..Len(query)) :
        /\ LiteralAt(query, i, kwFrom)
        /\ j > i + Len(kwFrom)
        /\ \A k \in (i + Len(kwFrom))..(j - 1) : IsSpaceChar(query[k])
        /\ IsWordChar(query[j])}

\* SQLParser.parse: the table is the word captured by the leftmost match of
\* /from\s+(\w+)/; without a match the parser throws
SQLParserParse(sqlArg) ==
    LET query == toLowerCase(trim(sqlArg))
        ms == FromMatches(query)
    IN  IF ms = {}
        THEN [threw |-> TRUE, table |-> <<>>]
        ELSE LET m == CHOOSE x \in ms : \A y \in ms : x[1] <= y[1]
             IN  [threw |-> FALSE, table |-> SubSeq(query, m[2], WordEnd(query, m[2]))]

\* const endpoints = { orders: ..., products: ..., customers: ... }
RestEndpoints == {TableChars("orders"), TableChars("products"), TableChars("customers")}

\* SELECT * FROM shop
SqlShop ==
    <<"S", "E", "L", "E", "C", "T", " ", "*", " ", "F", "R", "O", "M", " ",
      "s", "h", "o", "p">>

RestTexts == {SqlOrders, SqlShop, SqlMalformed, SqlMisspelledSelect, SqlEmpty}

ParsedOf == [text \in RestTexts |-> SQLParserParse(text)]

\* req.body.credentials: absent, without apiPassword, or complete
RestCredentials == {"absent", "withoutToken", "complete"}

\* the catch of the REST variant: 401, 404 and 403 of the remote API are
\* answered as such, every other error as 500
RestCatch(error) ==
    IF error.responseStatus \in {401, 404, 403}
    THEN ErrorResponse(error.responseStatus, <<"remote API: ">> \o error.message, "none")
    ELSE ErrorResponse(500, error.message, "none")

\* throw new Error('Invalid SQL: missing FROM clause')
MissingFromError == [message |-> <<"Invalid SQL: missing FROM clause">>, responseStatus |-> 0]

\* the TypeError of a normalisation that reads a field of an absent value
NormalizeTypeError == [message |-> <<"Cannot read properties of undefined">>, responseStatus |-> 0]

NoParse == [threw |-> FALSE, table |-> <<>>]

InitRest ==
    /\ restPc = [r \in Requests |-> "idle"]
    /\ restSql = [r \in Requests |-> <<>>]
    /\ restParsed = [r \in Requests |-> NoParse]
    /\ restResponse = [r \in Requests |-> NoResponse]

\* the handler up to its first await: the checks of the body, the parse of
\* the SQL text, the checks of the token and of the table, and the request
\* to the remote API
RestStart(r, text, credentials) ==
    /\ restPc[r] = "idle"
    /\ restSql' = [restSql EXCEPT ![r] = text]
    /\ IF text = SqlEmpty \/ credentials = "absent"
       THEN /\ restResponse' = [restResponse EXCEPT ![r] =
                   ErrorResponse(400, <<"Missing SQL or credentials">>, "none")]
            /\ restPc' = [restPc EXCEPT ![r] = "done"]
            /\ UNCHANGED restParsed
       ELSE /\ restParsed' = [restParsed EXCEPT ![r] = ParsedOf[text]]
            /\ IF ParsedOf[text].threw
               THEN /\ restResponse' = [restResponse EXCEPT ![r] = RestCatch(MissingFromError)]
                    /\ restPc' = [restPc EXCEPT ![r] = "done"]
               ELSE IF credentials = "withoutToken"
               THEN /\ restResponse' = [restResponse EXCEPT ![r] =
                           ErrorResponse(400, <<"Missing API access token">>, "none")]
                    /\ restPc' = [restPc EXCEPT ![r] = "done"]
               ELSE IF ParsedOf[text].table \notin RestEndpoints
               THEN /\ restResponse' = [restResponse EXCEPT ![r] =
                           ErrorResponse(400, <<"Table not supported">>, "none")]
                    /\ restPc' = [restPc EXCEPT ![r] = "done"]
               ELSE /\ restPc' = [restPc EXCEPT ![r] = "fetching"]
                    /\ UNCHANGED restResponse

\* the remote API answers with rows: they are normalised (which throws when a
\* row lacks a field the normalisation dereferences), filtered and returned
RestRows(r, rowsComplete) ==
    /\ restPc[r] = "fetching"
    /\ restResponse' = [restResponse EXCEPT ![r] =
          IF rowsComplete
          THEN SuccessResponse([reads |-> {[by |-> r, table |-> "rest"]},
                                isArray |-> TRUE, length |-> 1])
          ELSE RestCatch(NormalizeTypeError)]
    /\ restPc' = [restPc EXCEPT ![r] = "done"]
    /\ UNCHANGED <<restSql, restParsed>>

\* the remote API rejects the request, or the request fails without a response
RestFail(r, failure) ==
    /\ restPc[r] = "fetching"
    /\ restResponse' = [restResponse EXCEPT ![r] = RestCatch(failure)]
    /\ restPc' = [restPc EXCEPT ![r] = "done"]
    /\ UNCHANGED <<restSql, restParsed>>

NextRest ==
    \E r \in Requests :
        \/ \E text \in RestTexts, credentials \in RestCredentials :
              RestStart(r, text, credentials) /\ UNCHANGED <<resolverVars, handlerVars, libVars>>
        \/ \E rowsComplete \in BOOLEAN :
              RestRows(r, rowsComplete) /\ UNCHANGED <<resolverVars, handlerVars, libVars>>
        \/ \E failure \in FetchFailures :
              RestFail(r, failure) /\ UNCHANGED <<resolverVars, handlerVars, libVars>>

InitRestOnly ==
    /\ InitHandler
    /\ InitRest
    /\ rsql = <<>>
    /\ rpc = "off"
    /\ rtables = <<>>
    /\ InitLib

SpecRest == InitRestOnly /\ [][NextRest]_vars

(***************************************************************************)
(* Spec: concurrent query-mode requests to the handler of api/query.js     *)
(***************************************************************************)
Init ==
    /\ InitHandler
    /\ InitRest
    /\ rsql = <<>>
    /\ rpc = "off"
    /\ rtables = <<>>
    /\ InitLib

Next ==
    \E r \in Requests :
        \/ StartOptions(r) /\ UNCHANGED <<resolverVars, restVars, libVars>>
        \/ \E method \in Methods : StartWrongMethod(r, method) /\ UNCHANGED <<resolverVars, restVars, libVars>>
        \/ StartMissingSql(r) /\ UNCHANGED <<resolverVars, restVars, libVars>>
        \/ \E text \in HandlerTexts : StartNotConnected(r, text) /\ UNCHANGED <<resolverVars, restVars, libVars>>
        \/ \E text \in HandlerTexts : StartNoTable(r, text) /\ UNCHANGED <<resolverVars, restVars, libVars>>
        \/ \E text \in HandlerTexts : StartFetch(r, text) /\ UNCHANGED <<resolverVars, restVars, libVars>>
        \/ \E endCursor \in EndCursors : FetchPageMore(r, endCursor) /\ UNCHANGED <<resolverVars, restVars, libVars>>
        \/ \E endCursor \in EndCursors : FetchPageEmpty(r, endCursor) /\ UNCHANGED <<resolverVars, restVars, libVars>>
        \/ FetchTableDone(r) /\ UNCHANGED <<resolverVars, restVars, libVars>>
        \/ FetchLastAndExecute(r) /\ UNCHANGED <<resolverVars, restVars, libVars>>
        \/ \E failure \in FetchFailures : FetchFail(r, failure) /\ UNCHANGED <<resolverVars, restVars, libVars>>

Spec == Init /\ [][Next]_vars

(***************************************************************************)
(* SpecResolve: detectTablesFromSQL on bounded inputs                      *)
(***************************************************************************)
\* the longest text is MaxPieces pieces long
MaxPieces == 3

ResolverPieces ==
    { <<"f", "r", "o", "m", " ">>,          \* "from "
      <<"J", "O", "I", "N", "\n">>,         \* "JOIN\n"
      <<"o", "r", "d", "e", "r", "s">>,     \* "orders"
      <<"S", "h", "o", "p">>,               \* "Shop"
      <<"d", "r", "a", "f", "t", "_">>,     \* "draft_"
      <<".">>, <<"\"">>, <<",">>, <<"x">> }

RECURSIVE PieceTexts(_)
PieceTexts(n) ==
    IF n = 0 THEN {<<>>}
    ELSE LET shorter == PieceTexts(n - 1)
         IN  shorter \cup {s \o p : s \in shorter, p \in ResolverPieces}

ResolverInputs ==
    PieceTexts(MaxPieces)
        \cup {SqlOrders, SqlCustomers, SqlCommaJoin, SqlJoin, SqlMalformed,
              SqlMisspelledSelect, SqlNoTable}

InitResolve ==
    /\ rsql \in ResolverInputs
    /\ rpc = "ready"
    /\ rtables = <<>>
    /\ InitHandler
    /\ InitRest
    /\ InitLib

Resolve ==
    /\ rpc = "ready"
    /\ rtables' = detectTablesFromSQL(rsql)
    /\ rpc' = "done"
    /\ UNCHANGED <<rsql, handlerVars, restVars, libVars>>

NextResolve == Resolve

SpecResolve == InitResolve /\ [][NextResolve]_vars

(***************************************************************************)
(* SpecFetch: one call of fetchShopifyData for a paginated resource        *)
(***************************************************************************)
InitFetch ==
    /\ InitHandler
    /\ InitRest
    /\ rsql = <<>>
    /\ rpc = "off"
    /\ rtables = <<>>
    /\ fetchPc = "loop"
    /\ fetchResource \in {t \in Catalog : Paginated(t)}
    /\ \E k \in 0..MaxChildren :
          allData = [length |-> 0,
                     childrenEach |-> IF fetchResource \in DerivedTables THEN k ELSE 0]
    /\ hasNextPage = TRUE
    /\ lastRequest = NoPageRequest
    /\ cursor = Null
    /\ outstanding = 0
    /\ lastResponse = NoPageResponse
    /\ fetchCount = 0
    /\ NormOff
    /\ FnOff
    /\ StripOff

NextFetch ==
    \/ FetchRequest /\ UNCHANGED <<resolverVars, handlerVars, restVars, normVars, fnVars, stripVars>>
    \/ \E nodes \in 0..MaxFirst, pageInfo \in PageInfos :
          FetchPage(nodes, pageInfo) /\ UNCHANGED <<resolverVars, handlerVars, restVars, normVars, fnVars, stripVars>>
    \/ FetchReturn /\ UNCHANGED <<resolverVars, handlerVars, restVars, normVars, fnVars, stripVars>>

SpecFetch == InitFetch /\ [][NextFetch]_vars

(***************************************************************************)
(* The normalisers of the regex-parser and of the DuckDB variant           *)
(***************************************************************************)
\* v.trim()
TrimStr(v) == IF v # Thrown /\ v.k = "string" THEN Str(trim(v.s)) ELSE Thrown

EmptyString == Str(<<>>)

\* `${a} ${b}`.trim()
FullName(a, b) == TrimStr(Template(a, <<" ">>, b))

\* regex-parser variant, parsed.table === 'orders'
RestOrdersRow(o) ==
    [ id |-> Get(o, "id"),
      customer |-> Or(FullName(Or(OptGet(Get(o, "customer"), "first_name"), EmptyString),
                               Or(OptGet(Get(o, "customer"), "last_name"), EmptyString)),
                      Text("Guest")),
      email |-> Or(Or(Get(o, "email"), OptGet(Get(o, "customer"), "email")), EmptyString),
      total |-> parseFloat(Get(o, "total_price")),
      date |-> SplitT0(Get(o, "created_at")),
      status |-> Or(Get(o, "fulfillment_status"), Text("unfulfilled")),
      items |-> Or(OptGet(Get(o, "line_items"), "length"), Num(0)) ]

\* regex-parser variant, parsed.table === 'products'
RestProductsRow(p) ==
    [ id |-> Get(p, "id"),
      title |-> Get(p, "title"),
      price |-> parseFloat(Or(OptGet(First(Get(p, "variants")), "price"), Num(0))),
      inventory |-> Or(OptGet(First(Get(p, "variants")), "inventory_quantity"), Num(0)),
      vendor |-> Or(Get(p, "vendor"), EmptyString),
      sku |-> Or(OptGet(First(Get(p, "variants")), "sku"), EmptyString) ]

\* regex-parser variant, parsed.table === 'customers'
RestCustomersRow(c) ==
    [ id |-> Get(c, "id"),
      name |-> FullName(Or(Get(c, "first_name"), EmptyString),
                        Or(Get(c, "last_name"), EmptyString)),
      email |-> Get(c, "email"),
      orders |-> Or(Get(c, "orders_count"), Num(0)),
      total_spent |-> parseFloat(Or(Get(c, "total_spent"), Num(0))),
      location |-> Or(OptGet(Get(c, "default_address"), "city"), EmptyString),
      created |-> SplitT0(Get(c, "created_at")) ]

\* the normalisation of the regex-parser variant
RestNormalize(table, data) ==
    CASE table = "orders"    -> OverArray(data, [e \in DOMAIN Elements(data) |-> RestOrdersRow(Elements(data)[e])])
      [] table = "products"  -> OverArray(data, [e \in DOMAIN Elements(data) |-> RestProductsRow(Elements(data)[e])])
      [] table = "customers" -> OverArray(data, [e \in DOMAIN Elements(data) |-> RestCustomersRow(Elements(data)[e])])

\* DuckDB variant, tableName === "orders"
DuckOrdersRow(o) ==
    [ id |-> Get(o, "id"),
      customer |-> FullName(Or(OptGet(Get(o, "customer"), "first_name"), EmptyString),
                            Or(OptGet(Get(o, "customer"), "last_name"), EmptyString)),
      email |-> Or(Or(Get(o, "email"), OptGet(Get(o, "customer"), "email")), EmptyString),
      total |-> Get(o, "total_price"),
      date |-> OptSplitT0(Get(o, "created_at")),
      status |-> Or(Get(o, "fulfillment_status"), Text("unfulfilled")),
      items |-> Or(OptGet(Get(o, "line_items"), "length"), Num(0)) ]

\* DuckDB variant, tableName === "products"
DuckProductsRow(p) ==
    [ id |-> Get(p, "id"),
      title |-> Get(p, "title"),
      price |-> OptGet(OptFirst(Get(p, "variants")), "price"),
      inventory |-> OptGet(OptFirst(Get(p, "variants")), "inventory_quantity"),
      vendor |-> Get(p, "vendor"),
      sku |-> OptGet(OptFirst(Get(p, "variants")), "sku") ]

\* DuckDB variant, tableName === "customers"
DuckCustomersRow(c) ==
    [ id |-> Get(c, "id"),
      name |-> FullName(Or(Get(c, "first_name"), EmptyString),
                        Or(Get(c, "last_name"), EmptyString)),
      email |-> Get(c, "email"),
      orders |-> Get(c, "orders_count"),
      total_spent |-> Get(c, "total_spent"),
      location |-> OptGet(Get(c, "default_address"), "city"),
      created |-> OptSplitT0(Get(c, "created_at")) ]

\* the normalisation of the DuckDB variant
DuckNormalize(table, data) ==
    CASE table = "orders"    -> OverArray(data, [e \in DOMAIN Elements(data) |-> DuckOrdersRow(Elements(data)[e])])
      [] table = "products"  -> OverArray(data, [e \in DOMAIN Elements(data) |-> DuckProductsRow(Elements(data)[e])])
      [] table = "customers" -> OverArray(data, [e \in DOMAIN Elements(data) |-> DuckCustomersRow(Elements(data)[e])])

\* an order, a product and a customer of the REST API with every field present
FullRestOrder ==
    Obj([ id |-> Num(1),
          customer |-> Obj([ first_name |-> Text("first_name"),
                             last_name |-> Text("last_name"), email |-> Text("email") ]),
          email |-> Text("email"), total_price |-> Str(<<"1", "2">>),
          created_at |-> Str(<<"2", "0", "2", "4", "T", "1", "0">>),
          fulfillment_status |-> Text("fulfillment_status"),
          line_items |-> Arr(<<Obj([ id |-> Num(1) ])>>) ])

FullRestProduct ==
    Obj([ id |-> Num(1), title |-> Text("title"), vendor |-> Text("vendor"),
          variants |-> Arr(<<Obj([ price |-> Str(<<"1", "2">>),
                                   inventory_quantity |-> Num(1), sku |-> Text("sku") ])>>) ])

FullRestCustomer ==
    Obj([ id |-> Num(1), first_name |-> Text("first_name"), last_name |-> Text("last_name"),
          email |-> Text("email"), orders_count |-> Num(1), total_spent |-> Str(<<"1", "2">>),
          default_address |-> Obj([ city |-> Text("city") ]),
          created_at |-> Str(<<"2", "0", "2", "4", "T", "1", "0">>) ])

(***************************************************************************)
(* SpecNormalize: the normalisers applied to records of the remote API     *)
(* with fields absent or null                                              *)
(***************************************************************************)
\* the longest list of parent records
MaxParents == 2

\* the record without the field
Without(record, field) ==
    Obj([g \in DOMAIN record.fields \ {field} |-> record.fields[g]])

\* the record with the field set
WithField(record, field, value) ==
    Obj([g \in DOMAIN record.fields \cup {field} |->
            IF g = field THEN value ELSE record.fields[g]])

\* the record with nothing but its id
OnlyId(record) == Obj([g \in {"id"} |-> record.fields[g]])

\* an object without any field
EmptyObject == Obj(<<>>)

\* the record itself, and the record with fields other than id absent, null
\* or, for a nested object, empty
RecordVariants(full) ==
    {full, OnlyId(full)}
        \cup {Without(full, f) : f \in DOMAIN full.fields \ {"id"}}
        \cup {WithField(full, f, Null) : f \in DOMAIN full.fields \ {"id"}}
        \cup {WithField(full, f, EmptyObject) :
                f \in {g \in DOMAIN full.fields : full.fields[g].k = "object"}}

\* the record of each base resource with every field present
FullRecord(base) ==
    CASE base = "orders"          -> FullOrder
      [] base = "products"        -> FullProduct
      [] base = "customers"       -> FullCustomer
      [] base = "collections"     -> FullCollection
      [] base = "inventory_items" -> FullInventoryItem
      [] base = "locations"       -> FullLocation
      [] base = "draft_orders"    -> FullDraftOrder
      [] base = "shop"            -> FullShop

\* the field of a parent record that holds the children of a derived table,
\* and the type of the parents' and of the children's identifiers
ChildField ==
    [ order_line_items |-> "lineItems", product_variants |-> "variants",
      inventory_levels |-> "inventoryLevels" ]

ParentType ==
    [ order_line_items |-> "Order", product_variants |-> "Product",
      inventory_levels |-> "InventoryItem" ]

ChildType ==
    [ order_line_items |-> "LineItem", product_variants |-> "ProductVariant",
      inventory_levels |-> "InventoryLevel" ]

\* parent number n of a derived table, with children children
Parent(derived, n, children) ==
    LET full == FullRecord(BaseResource(derived))
        child == full.fields[ChildField[derived]].fields.nodes.items[1]
    IN  WithField(WithField(full, "id", Gid(ParentType[derived], n)),
                  ChildField[derived],
                  Obj([nodes |-> Arr([j \in 1..children |->
                          WithField(child, "id", Gid(ChildType[derived], 10 * n + j))])]))

\* the lists of at most MaxParents parents with at most MaxChildren children each
ParentLists(derived) ==
    UNION {{Arr([n \in 1..len |-> Parent(derived, n, counts[n])]) :
               counts \in [1..len -> 0..MaxChildren]} : len \in 0..MaxParents}

\* what the remote API answers for a resource of api/query.js
GraphQLData(resource) ==
    LET full == FullRecord(BaseResource(resource))
    IN  CASE resource = "shop" -> RecordVariants(full)
          [] resource = "locations" ->
                {Obj([nodes |-> Arr(<<r>>)]) : r \in RecordVariants(full)}
          [] OTHER ->
                {Arr(<<r>>) : r \in RecordVariants(full)}
                    \cup {Arr(<<full, OnlyId(full)>>)}
                    \cup (IF resource \in DOMAIN ChildField THEN ParentLists(resource) ELSE {})

\* what the REST API answers for a table of the earlier variants
RestTables == {"orders", "products", "customers"}

FullRestRecord(table) ==
    CASE table = "orders"    -> FullRestOrder
      [] table = "products"  -> FullRestProduct
      [] table = "customers" -> FullRestCustomer

RestData(table) == {Arr(<<r>>) : r \in RecordVariants(FullRestRecord(table))}

\* the inputs of the normalisers: the variant, the table and the data
NormalizeInputs ==
    UNION {{[variant |-> "graphql", resource |-> t, data |-> d] : d \in GraphQLData(t)} :
              t \in Catalog}
    \cup
    UNION {{[variant |-> w, resource |-> t, data |-> d] : d \in RestData(t)} :
              w \in {"rest", "duckdb"}, t \in RestTables}

InitNormalize ==
    /\ InitHandler
    /\ InitRest
    /\ rsql = <<>>
    /\ rpc = "off"
    /\ rtables = <<>>
    /\ FetchOff
    /\ nPc = "ready"
    /\ \E input \in NormalizeInputs :
          /\ nVariant = input.variant
          /\ nResource = input.resource
          /\ nData = input.data
    /\ nOut = NoOut
    /\ FnOff
    /\ StripOff

\* api/query.js: fetchShopifyData returns the rows of the data fetched
NormalizeGraphQL ==
    /\ nPc = "ready"
    /\ nVariant = "graphql"
    /\ nOut' = FetchedRows(nResource, nData)
    /\ nPc' = "done"
    /\ UNCHANGED <<nVariant, nResource, nData>>

\* the regex-parser variant normalises response.data[parsed.table]
NormalizeRest ==
    /\ nPc = "ready"
    /\ nVariant = "rest"
    /\ nOut' = RestNormalize(nResource, nData)
    /\ nPc' = "done"
    /\ UNCHANGED <<nVariant, nResource, nData>>

\* the DuckDB variant normalises apiData.data[tableName]
NormalizeDuck ==
    /\ nPc = "ready"
    /\ nVariant = "duckdb"
    /\ nOut' = DuckNormalize(nResource, nData)
    /\ nPc' = "done"
    /\ UNCHANGED <<nVariant, nResource, nData>>

NextNormalize ==
    \/ NormalizeGraphQL /\ UNCHANGED <<resolverVars, handlerVars, restVars, fetchVars, fnVars, stripVars>>
    \/ NormalizeRest /\ UNCHANGED <<resolverVars, handlerVars, restVars, fetchVars, fnVars, stripVars>>
    \/ NormalizeDuck /\ UNCHANGED <<resolverVars, handlerVars, restVars, fetchVars, fnVars, stripVars>>

SpecNormalize == InitNormalize /\ [][NextNormalize]_vars

(***************************************************************************)
(* C9: detectTablesFromSQL returns exactly the catalog names that occur,   *)
(* case-insensitively, after FROM, after JOIN, as a dotted qualifier or as *)
(* a double-quoted identifier; each at most once; none outside the         *)
(* catalog; and {orders, customers} for the join example.                  *)
(***************************************************************************)
\* the maximal word of s that starts at position i is w, ignoring case
WordIs(s, i, w) ==
    /\ i >= 1
    /\ i + Len(w) - 1 <= Len(s)
    /\ (i = 1 \/ ~IsWordChar(s[i - 1]))
    /\ \A k \in 1..Len(w) : LowerChar(s[i + k - 1]) = w[k]
    /\ (i + Len(w) > Len(s) \/ ~IsWordChar(s[i + Len(w)]))

\* the name t stands after the keyword kw, separated from it by white space
OccursAfter(kw, t, s) ==
    \E i \in 1..Len(s), j \in 1..Len(s) :
        /\ WordIs(s, i, kw)
        /\ j > i + Len(kw)
        /\ \A k \in (i + Len(kw))..(j - 1) : IsSpaceChar(s[k])
        /\ WordIs(s, j, TableChars(t))

\* the name t stands as a qualifier: t.
OccursDotted(t, s) ==
    \E i \in 1..Len(s) :
        /\ WordIs(s, i, TableChars(t))
        /\ i + Len(TableChars(t)) <= Len(s)
        /\ s[i + Len(TableChars(t))] = "."

\* the name t stands between double quotes: "t"
OccursQuoted(t, s) ==
    \E i \in 1..Len(s) :
        /\ s[i] = "\""
        /\ WordIs(s, i + 1, TableChars(t))
        /\ i + 1 + Len(TableChars(t)) <= Len(s)
        /\ s[i + 1 + Len(TableChars(t))] = "\""

ReferencedTables(s) ==
    {t \in Catalog :
        \/ OccursAfter(kwFrom, t, s)
        \/ OccursAfter(kwJoin, t, s)
        \/ OccursDotted(t, s)
        \/ OccursQuoted(t, s)}

NoDuplicates(a) == \A i, j \in 1..Len(a) : a[i] = a[j] => i = j

C9_ResolverExact ==
    rpc = "done" =>
        /\ Range(rtables) = ReferencedTables(rsql)
        /\ NoDuplicates(rtables)
        /\ Range(rtables) \subseteq Catalog
        /\ (rsql = SqlJoin => Range(rtables) = {"orders", "customers"})

C9_Witness ==
    /\ rpc = "done"
    /\ rsql = SqlJoin
    /\ rtables = <<"orders", "customers">>

(***************************************************************************)
(* Claims about the query handler (Spec)                                   *)
(***************************************************************************)
\* the rows the SQL of request r was executed over
RowsRead(r) == response[r].results.reads

(***************************************************************************)
(* C1: of two requests handled concurrently, neither's SQL is executed     *)
(* over rows that the other one loaded into the table registry.            *)
(***************************************************************************)
C1_ConcurrentRequestsIsolated ==
    \A r \in Requests : \A q \in overlap[r] : \A d \in RowsRead(r) : d.by # q

(***************************************************************************)
(* C2: nothing a request loaded survives its response: the SQL of a later  *)
(* request never reads rows loaded by a request that had responded before  *)
(* it arrived, so it reads no table it did not fetch itself.               *)
(***************************************************************************)
C2_NoStateSurvivesRequest ==
    \A r \in Requests : \A q \in respondedBefore[r] : \A d \in RowsRead(r) : d.by # q

(***************************************************************************)
(* C3: when the remote API rejects a table fetch with HTTP 401, the        *)
(* handler answers 401 and clears the shopify_session cookie.              *)
(***************************************************************************)
C3_Remote401Answers401 ==
    \A r \in Requests :
        (pc[r] = "done" /\ remoteFailure[r].failed /\ remoteFailure[r].status = 401)
            => (response[r].status = 401 /\ response[r].setCookie = "clear")

(***************************************************************************)
(* C4: a table fetch the remote API fails with HTTP 404 is answered 404,   *)
(* one it fails with HTTP 403 is answered 403; neither is answered 500.    *)
(***************************************************************************)
C4_Remote404And403Mapped ==
    \A r \in Requests :
        (pc[r] = "done" /\ remoteFailure[r].failed /\ remoteFailure[r].status \in {403, 404})
            => response[r].status = remoteFailure[r].status

(***************************************************************************)
(* C5: when the fetch of one table fails, no later table is fetched, no    *)
(* table is loaded into the executor, the SQL is never executed, the       *)
(* response carries an error and no results, and the error message names   *)
(* the table whose fetch failed.                                           *)
(***************************************************************************)
C5_FetchFailureAbortsRequest ==
    \A r \in Requests :
        remoteFailure[r].failed =>
            /\ pc[r] = "done"
            /\ \E k \in 1..Len(resolved[r]) :
                  /\ resolved[r][k] = remoteFailure[r].table
                  /\ remoteRequested[r] = {resolved[r][i] : i \in 1..k}
            /\ loadedBy[r] = {}
            /\ \A t \in Catalog : alasqlTables[t].by # r
            /\ ~engineCall[r].called
            /\ "error" \in response[r].keys
            /\ "results" \notin response[r].keys
            /\ response[r].status >= 400
            /\ remoteFailure[r].table \in Range(response[r].error)

\* the first of two tables fails, with a 401 of the remote API
C5_Witness ==
    \E r \in Requests :
        /\ remoteFailure[r].failed
        /\ remoteFailure[r].status = 401
        /\ Len(resolved[r]) = 2
        /\ remoteFailure[r].table = resolved[r][1]
        /\ response[r].keys = {"error"}

(***************************************************************************)
(* C7: when the SQL engine raises, the error returned carries the engine's *)
(* message; the list of loaded tables is appended if and only if the       *)
(* message reports something not found, and the list is exactly the tables *)
(* this request resolved and loaded.                                       *)
(***************************************************************************)
\* the table names listed after the engine's message m in the error e
ListedTables(e, m) == {e[i] : i \in (Len(m) + 3)..Len(e)} \ {", "}

ReferencedOf == [text \in HandlerTexts \cup {SqlEmpty} |-> ReferencedTables(text)]

C10_ResolverCoversSources ==
    \A r \in Requests :
        engineCall[r].called =>
            /\ SourcesOf[sqlText[r]] \subseteq Range(resolved[r])
            /\ \A d \in RowsRead(r) : d.table \in loadedBy[r]

(***************************************************************************)
(* C6: every request whose SQL text is rejected as malformed, by the       *)
(* pre-parser or by the SQL engine, is answered 400 with an error and no   *)
(* results, in every variant of the handler.                               *)
(***************************************************************************)
C6_MalformedSqlAnswered400 ==
    \A r \in Requests :
        /\ engineCall[r].threw =>
              (response[r].status = 400 /\ response[r].keys = {"error"})
        /\ (restPc[r] = "done" /\ restParsed[r].threw) =>
              (restResponse[r].status = 400 /\ restResponse[r].keys = {"error"})

(***************************************************************************)
(* C13: in query mode a success is answered 200 with results a sequence    *)
(* and count its length; an engine result that is no array is answered as  *)
(* a sequence of one element.                                              *)
(***************************************************************************)
C13_SuccessIsSequenceWithCount ==
    \A r \in Requests :
        (given[r].method = "POST" /\ response[r].status = 200) =>
            /\ response[r].results.isArray
            /\ response[r].keys = {"results", "count"}
            /\ response[r].count = response[r].results.length
            /\ (~engineCall[r].result.isArray => response[r].results.length = 1)
            /\ (engineCall[r].result.isArray =>
                    response[r].results.length = engineCall[r].result.length)

\* a SELECT VALUE statement was executed and answered
C13_Witness ==
    \E r \in Requests :
        /\ response[r].status = 200
        /\ engineCall[r].called
        /\ ~engineCall[r].threw
        /\ ~engineCall[r].result.isArray
        /\ response[r].count = 1

(***************************************************************************)
(* C11: with every page answering at most the first records requested,     *)
(* fetchShopifyData never holds more than maxRecords raw records, and each *)
(* page request asks for min(50, maxRecords - accumulated) records, a      *)
(* number between 1 and 50.                                                *)
(***************************************************************************)
C11_RecordCapAndPageSize ==
    /\ allData.length <= maxRecords
    /\ lastRequest # NoPageRequest =>
          /\ lastRequest.first >= 1
          /\ lastRequest.first <= 50
          /\ lastRequest.first <= maxRecords - lastRequest.accumulated
          /\ (lastRequest.first = 50 \/ lastRequest.first = maxRecords - lastRequest.accumulated)
          /\ allData.length <= lastRequest.accumulated + lastRequest.first

\* the cap is reached by a last page of fewer than 50 records
C11_Witness ==
    /\ fetchPc = "returned"
    /\ allData.length = maxRecords
    /\ lastRequest.first < 50
    /\ lastRequest.accumulated + lastRequest.first = maxRecords

(***************************************************************************)
(* C12: with no LIMIT clause and the fetch cap at 250, the response never  *)
(* counts more than 250 rows, also for a query over a derived table.       *)
(***************************************************************************)
C12_ResultWithinFetchCap ==
    fetchPc = "returned" => fetchCount <= 250

(***************************************************************************)
(* C14: for every resource, a record whose optional fields are absent is   *)
(* normalised to a row that has every column of the table with null or a   *)
(* default as its value, never undefined; so all the rows of a table have  *)
(* the same keys.                                                          *)
(***************************************************************************)
C14_AbsentFieldsGiveNullOrDefault ==
    (nPc = "done" /\ nVariant = "graphql" /\ ~nOut.threw) =>
        /\ \A e \in DOMAIN nOut.rows : \A key \in DOMAIN nOut.rows[e] :
              nOut.rows[e][key] # Undefined
        /\ \A e \in DOMAIN nOut.rows : DOMAIN nOut.rows[e] = DOMAIN nOut.rows[1]

(***************************************************************************)
(* C15: no normaliser, of any variant, throws on a record whose optional   *)
(* fields are absent: it returns rows.                                     *)
(***************************************************************************)
C15_NormalizerNeverThrows ==
    nPc = "done" => ~nOut.threw

(***************************************************************************)
(* C16: a derived table (order_line_items, product_variants,               *)
(* inventory_levels) has one row per nested child of each parent, so as    *)
(* many rows as the parents have children, and the foreign key of each row *)
(* is the stripped identifier of the parent the row comes from; two orders *)
(* with one line item each give 2 rows.                                    *)
(***************************************************************************)
ForeignKey ==
    [ order_line_items |-> "order_id", product_variants |-> "product_id",
      inventory_levels |-> "inventory_item_id" ]

\* the number of children the parent record carries under field
ChildCount(parent, field) ==
    IF /\ field \in DOMAIN parent.fields
       /\ parent.fields[field].k = "object"
       /\ "nodes" \in DOMAIN parent.fields[field].fields
       /\ parent.fields[field].fields.nodes.k = "array"
    THEN Len(parent.fields[field].fields.nodes.items)
    ELSE 0

\* the identifier of its parent, for each child of the parents in their order
RECURSIVE ParentIds(_, _)
ParentIds(parents, field) ==
    IF parents = <<>> THEN <<>>
    ELSE [j \in 1..ChildCount(parents[1], field) |-> parents[1].fields.id]
            \o ParentIds(Tail(parents), field)

\* key is the number at the end of the global identifier id
IsNumberOf(key, id) ==
    \E type \in {ParentType[t] : t \in DOMAIN ParentType}, n \in 1..(MaxParents + 1) :
        id = Gid(type, n) /\ key = Str(NatToChars(n))

TwoOrdersOneItemEach ==
    Arr(<<Parent("order_line_items", 1, 1), Parent("order_line_items", 2, 1)>>)

C16_DerivedRowsPerChild ==
    (nPc = "done" /\ nVariant = "graphql" /\ nResource \in DOMAIN ForeignKey) =>
        LET ids == ParentIds(nData.items, ChildField[nResource])
        IN  /\ ~nOut.threw
            /\ Len(nOut.rows) = Len(ids)
            /\ \A e \in DOMAIN nOut.rows :
                  IsNumberOf(nOut.rows[e][ForeignKey[nResource]], ids[e])
            /\ (nResource = "order_line_items" /\ nData = TwoOrdersOneItemEach
                    => Len(nOut.rows) = 2)

\* two orders with one line item each were normalised to two rows, one of
\* each order
C16_Witness ==
    /\ nPc = "done"
    /\ nResource = "order_line_items"
    /\ nData = TwoOrdersOneItemEach
    /\ Len(nOut.rows) = 2
    /\ nOut.rows[1].order_id = Str(<<"1">>)
    /\ nOut.rows[2].order_id = Str(<<"2">>)

(***************************************************************************)
(* C17: the shop table has exactly one row, whose columns carry the values *)
(* of the fields of the shop object the remote API returned.               *)
(***************************************************************************)
ShopColumnField ==
    [ name |-> "name", email |-> "email", myshopify_domain |-> "myshopifyDomain",
      currency |-> "currencyCode", weight_unit |-> "weightUnit",
      timezone |-> "timezoneAbbreviation" ]

C17_ShopRowCarriesShopFields ==
    (nPc = "done" /\ nVariant = "graphql" /\ nResource = "shop") =>
        /\ ~nOut.threw
        /\ Len(nOut.rows) = 1
        /\ \A col \in DOMAIN ShopColumnField :
              ShopColumnField[col] \in DOMAIN nData.fields =>
                  nOut.rows[1][col] = nData.fields[ShopColumnField[col]]

(***************************************************************************)
(* C20: the tables getSchema names are those of the resolver's catalog,    *)
(* and the columns it lists for a table are the keys of the rows           *)
(* transformToTable makes for that table.                                  *)
(***************************************************************************)
C20_SchemaInSyncWithNormalizer ==
    /\ DOMAIN getSchemaColumns = Catalog
    /\ (nPc = "done" /\ nVariant = "graphql" /\ ~nOut.threw) =>
          \A e \in DOMAIN nOut.rows :
              DOMAIN nOut.rows[e] = Range(getSchemaColumns[nResource])

(***************************************************************************)
(* The custom SQL functions alasql.fn.* of api/query.js                    *)
(***************************************************************************)
\* the upper-case letter of each lower-case letter
UpperOf ==
    [c \in Range(LowerLetters) |->
        UpperLetters[CHOOSE i \in 1..Len(LowerLetters) : LowerLetters[i] = c]]

\* String.prototype.toUpperCase
toUpperCase(s) ==
    [i \in 1..Len(s) |-> IF s[i] \in DOMAIN UpperOf THEN UpperOf[s[i]] ELSE s[i]]

\* v.toUpperCase(): a TypeError when v has no such method
ToUpperCaseOf(v) == IF v.k = "string" THEN Str(toUpperCase(v.s)) ELSE Thrown

\* v.toUpperCase() in the place of v?.toUpperCase()
ToUpperCaseUnguarded(v) == ToUpperCaseOf(v)

\* v?.toUpperCase()
OptToUpperCase(v) == IF IsNullish(v) THEN Undefined ELSE ToUpperCaseOf(v)

\* Number(v), the conversion of the arithmetic operators
ToNumber(v) ==
    CASE v.k = "number"  -> v
      [] v.k = "null"    -> Num(0)
      [] v.k = "boolean" -> IF v.b THEN Num(1) ELSE Num(0)
      [] v.k = "string"  ->
            LET t == trim(v.s)
            IN  IF t = <<>> THEN Num(0)
                ELSE IF \A i \in 1..Len(t) : t[i] \in Digits THEN Num(CharsToNat(t))
                ELSE IF /\ Len(t) >= 2
                        /\ t[1] = "-"
                        /\ \A i \in 2..Len(t) : t[i] \in Digits
                     THEN Num(0 - CharsToNat(Tail(t)))
                ELSE NaN
      [] OTHER -> NaN

\* a - b
Minus(a, b) ==
    IF ToNumber(a) = NaN \/ ToNumber(b) = NaN THEN NaN
    ELSE Num(ToNumber(a).n - ToNumber(b).n)

\* a + b: concatenation when an operand is a string, addition otherwise
Plus(a, b) ==
    IF a.k = "string" \/ b.k = "string" THEN Str(StringOf(a) \o StringOf(b))
    ELSE IF ToNumber(a) = NaN \/ ToNumber(b) = NaN THEN NaN
    ELSE Num(ToNumber(a).n + ToNumber(b).n)

\* an index argument of substring: NaN gives 0, the value is clamped to 0..len
SubstringIndex(v, len) ==
    IF ToNumber(v) = NaN THEN 0
    ELSE IF ToNumber(v).n < 0 THEN 0
    ELSE Min(ToNumber(v).n, len)

\* s.substring(start, end): an undefined end is the length, and the two
\* indexes are swapped when start is the greater
substring(s, start, end) ==
    LET a == SubstringIndex(start, Len(s))
        b == IF end = Undefined THEN Len(s) ELSE SubstringIndex(end, Len(s))
    IN  SubSeq(s, Min(a, b) + 1, IF a < b THEN b ELSE a)

\* parseInt(v, 10); the numbers of the model are not negative
parseInt(v) ==
    IF LeadingDigits(TrimLeft(StringOf(v))) = <<>> THEN NaN
    ELSE Num(CharsToNat(LeadingDigits(TrimLeft(StringOf(v)))))

\* the strings new Date(..) accepts in the model: YYYY-MM-DD, alone or
\* followed by T and a time
IsIsoDate(s) ==
    /\ Len(s) >= 10
    /\ \A i \in {1, 2, 3, 4, 6, 7, 9, 10} : s[i] \in Digits
    /\ s[5] = "-"
    /\ s[8] = "-"
    /\ (Len(s) = 10 \/ s[11] = "T")

\* new Date(v), by its calendar date in UTC (the zone of the process): a
\* number or a boolean is a count of milliseconds from the epoch, a string
\* that is not a date gives an Invalid Date
NewDate(v) ==
    CASE v.k \in {"number", "boolean", "null"} ->
            [valid |-> TRUE, date |-> <<"1", "9", "7", "0", "-", "0", "1", "-", "0", "1">>]
      [] v.k = "string" /\ IsIsoDate(v.s) ->
            [valid |-> TRUE, date |-> SubSeq(v.s, 1, 10)]
      [] OTHER -> [valid |-> FALSE, date |-> <<>>]

\* d.toISOString(): a RangeError for an Invalid Date; the time of day is
\* not modelled
toISOString(d) ==
    IF d.valid
    THEN Str(d.date \o <<"T", "0", "0", ":", "0", "0", ":", "0", "0", ".", "0", "0", "0", "Z">>)
    ELSE Thrown

\* crypto.createHash(algorithm).update(text).digest('hex'): the digest is
\* modelled by the pair it is a function of, so two digests are equal only
\* for the same algorithm and the same text
Digest(algorithm, text) == [k |-> "string", s |-> <<algorithm, ":">> \o text]

SHA2(str, bits) ==
    IF ~Truthy(str) THEN Null
    ELSE LET algorithm == IF bits = Num(256) THEN "sha256"
                          ELSE IF bits = Num(512) THEN "sha512"
                          ELSE "sha256"
         IN  Digest(algorithm, StringOf(str))

MD5(str) == IF ~Truthy(str) THEN Null ELSE Digest("md5", StringOf(str))

LOWER(str) == IF Truthy(str) THEN Str(toLowerCase(StringOf(str))) ELSE Null

UPPER(str) == IF Truthy(str) THEN Str(toUpperCase(StringOf(str))) ELSE Null

\* args.filter(a => a != null).join('')
CONCAT(args) == Join(Arr(SelectSeq(args, LAMBDA a : ~IsNullish(a))), <<>>)

SUBSTRING(str, start, length) ==
    IF ~Truthy(str) THEN Null
    ELSE Str(substring(StringOf(str),
                       Minus(start, Num(1)),
                       IF Truthy(length) THEN Plus(Minus(start, Num(1)), length)
                       ELSE Undefined))

TRIM(str) == IF Truthy(str) THEN Str(trim(StringOf(str))) ELSE Null

LENGTH(str) == IF Truthy(str) THEN Num(Len(StringOf(str))) ELSE Num(0)

\* new Date().toISOString(): the clock is not modelled
NOW == Str(<<"now">>)

DATE(str) ==
    IF ~Truthy(str) THEN Null
    ELSE SplitT0(toISOString(NewDate(str)))

\* getFullYear() of an Invalid Date is NaN
YEAR(str) ==
    IF ~Truthy(str) THEN Null
    ELSE IF NewDate(str).valid THEN Num(CharsToNat(SubSeq(NewDate(str).date, 1, 4)))
    ELSE NaN

MONTH(str) ==
    IF ~Truthy(str) THEN Null
    ELSE IF NewDate(str).valid
         THEN Plus(Minus(Num(CharsToNat(SubSeq(NewDate(str).date, 6, 7))), Num(1)), Num(1))
    ELSE NaN

DAY(str) ==
    IF ~Truthy(str) THEN Null
    ELSE IF NewDate(str).valid THEN Num(CharsToNat(SubSeq(NewDate(str).date, 9, 10)))
    ELSE NaN

RECURSIVE COALESCE(_)
COALESCE(args) ==
    IF args = <<>> THEN Null
    ELSE IF ~IsNullish(args[1]) THEN args[1]
    ELSE COALESCE(Tail(args))

IFNULL(val, defaultVal) == IF ~IsNullish(val) THEN val ELSE defaultVal

\* val1 === val2 (NaN is equal to nothing)
NULLIF(val1, val2) == IF val1 = val2 /\ val1 # NaN THEN Null ELSE val1

CAST(val, type) ==
    IF IsNullish(val) THEN Null
    ELSE LET t == OptToUpperCase(type)
         IN  CASE t = Thrown -> Thrown
               [] t \in {Str(<<"I", "N", "T">>),
                         Str(<<"I", "N", "T", "E", "G", "E", "R">>)} -> parseInt(val)
               [] t \in {Str(<<"F", "L", "O", "A", "T">>),
                         Str(<<"D", "E", "C", "I", "M", "A", "L">>),
                         Str(<<"D", "O", "U", "B", "L", "E">>)} -> parseFloat(val)
               [] t \in {Str(<<"S", "T", "R", "I", "N", "G">>),
                         Str(<<"V", "A", "R", "C", "H", "A", "R">>),
                         Str(<<"C", "H", "A", "R">>)} -> Str(StringOf(val))
               [] OTHER -> val

\* the i-th parameter of a call: undefined when the argument is absent
Arg(args, i) == IF i <= Len(args) THEN args[i] ELSE Undefined

\* alasql calls alasql.fn[name] with the arguments of the SQL expression
alasqlFn(name, args) ==
    CASE name = "SHA2"      -> SHA2(Arg(args, 1), Arg(args, 2))
      [] name = "MD5"       -> MD5(Arg(args, 1))
      [] name = "LOWER"     -> LOWER(Arg(args, 1))
      [] name = "UPPER"     -> UPPER(Arg(args, 1))
      [] name = "CONCAT"    -> CONCAT(args)
      [] name = "SUBSTRING" -> SUBSTRING(Arg(args, 1), Arg(args, 2), Arg(args, 3))
      [] name = "TRIM"      -> TRIM(Arg(args, 1))
      [] name = "LENGTH"    -> LENGTH(Arg(args, 1))
      [] name = "NOW"       -> NOW
      [] name = "DATE"      -> DATE(Arg(args, 1))
      [] name = "YEAR"      -> YEAR(Arg(args, 1))
      [] name = "MONTH"     -> MONTH(Arg(args, 1))
      [] name = "DAY"       -> DAY(Arg(args, 1))
      [] name = "COALESCE"  -> COALESCE(args)
      [] name = "IFNULL"    -> IFNULL(Arg(args, 1), Arg(args, 2))
      [] name = "NULLIF"    -> NULLIF(Arg(args, 1), Arg(args, 2))
      [] name = "CAST"      -> CAST(Arg(args, 1), Arg(args, 2))

(***************************************************************************)
(* SpecFunctions: one call of a custom SQL function                        *)
(***************************************************************************)
\* the longest argument list given to a function with rest parameters
MaxArgs == 3

\* the parameters each function declares; CONCAT and COALESCE take any number
Parameters ==
    [SHA2 |-> 2, MD5 |-> 1, LOWER |-> 1, UPPER |-> 1, CONCAT |-> MaxArgs,
     SUBSTRING |-> 3, TRIM |-> 1, LENGTH |-> 1, NOW |-> 0, DATE |-> 1,
     YEAR |-> 1, MONTH |-> 1, DAY |-> 1, COALESCE |-> MaxArgs, IFNULL |-> 2,
     NULLIF |-> 2, CAST |-> 2]

FnNames == DOMAIN Parameters

\* the values given as arguments
ArgValues ==
    {Undefined, Null, Num(0), Num(5), Num(256), Num(512), Bool(FALSE), Bool(TRUE),
     Str(<<>>), Str(<<"a">>), Str(<<" ", "A", "b", " ">>), Str(<<"i", "n", "t">>),
     Str(<<"2", "0", "2", "4", "-", "0", "3", "-", "1", "5", "T", "1", "0">>)}

\* the argument lists of a function: up to as many as it declares
ArgLists(name) == UNION {[1..len -> ArgValues] : len \in 0..Parameters[name]}

InitFunctions ==
    /\ InitHandler
    /\ InitRest
    /\ rsql = <<>>
    /\ rpc = "off"
    /\ rtables = <<>>
    /\ FetchOff
    /\ NormOff
    /\ fnPc = "ready"
    /\ fnName \in FnNames
    /\ fnArgs \in ArgLists(fnName)
    /\ fnResult = Undefined
    /\ StripOff

\* the SQL engine evaluates one call of a custom function
CallFunction ==
    /\ fnPc = "ready"
    /\ fnResult' = alasqlFn(fnName, fnArgs)
    /\ fnPc' = "done"
    /\ UNCHANGED <<fnName, fnArgs>>

NextFunctions ==
    CallFunction /\ UNCHANGED <<resolverVars, handlerVars, restVars, fetchVars, normVars, stripVars>>

SpecFunctions == InitFunctions /\ [][NextFunctions]_vars

(***************************************************************************)
(* C18: no custom SQL function raises on null or absent arguments: every   *)
(* call in which an argument is null, undefined or absent returns a value; *)
(* CONCAT(null, "a", null) = "a", COALESCE(null, null, 5) = 5 and          *)
(* SHA2(null) = null.                                                      *)
(***************************************************************************)
NullOrAbsentArgument ==
    \/ Len(fnArgs) < Parameters[fnName]
    \/ fnArgs = <<>>
    \/ \E i \in DOMAIN fnArgs : IsNullish(fnArgs[i])

C18_NullArgumentsNeverRaise ==
    fnPc = "done" =>
        /\ NullOrAbsentArgument => fnResult # Thrown
        /\ (fnName = "CONCAT" /\ fnArgs = <<Null, Str(<<"a">>), Null>>)
              => fnResult = Str(<<"a">>)
        /\ (fnName = "COALESCE" /\ fnArgs = <<Null, Null, Num(5)>>)
              => fnResult = Num(5)
        /\ (fnName = "SHA2" /\ IsNullish(Arg(fnArgs, 1))) => fnResult = Null

C18_Witness ==
    /\ fnPc = "done"
    /\ fnName = "CAST"
    /\ fnArgs = <<Str(<<"a">>), Null>>
    /\ fnResult = Str(<<"a">>)

(***************************************************************************)
(* C19: SHA2, MD5, LOWER, UPPER and TRIM return null only for null input:  *)
(* for every value that is not null or undefined, 0, false and the empty   *)
(* string included, the result is the function applied to String(value);   *)
(* SHA2 uses SHA-512 for bits = 512 and SHA-256 otherwise.                 *)
(***************************************************************************)
AppliedToStringForm(name, args) ==
    LET text == StringOf(args[1])
    IN  CASE name = "SHA2"  -> Digest(IF Arg(args, 2) = Num(512) THEN "sha512" ELSE "sha256",
                                      text)
          [] name = "MD5"   -> Digest("md5", text)
          [] name = "LOWER" -> Str(toLowerCase(text))
          [] name = "UPPER" -> Str(toUpperCase(text))
          [] name = "TRIM"  -> Str(trim(text))

C19_NullOnlyForNullInput ==
    (/\ fnPc = "done"
     /\ fnName \in {"SHA2", "MD5", "LOWER", "UPPER", "TRIM"}
     /\ fnArgs # <<>>
     /\ ~IsNullish(fnArgs[1]))
    => /\ fnResult # Null
       /\ fnResult = AppliedToStringForm(fnName, fnArgs)

(***************************************************************************)
(* SpecStrip: the identifier stripping of transformToTable,                *)
(* id?.split('/').pop(), applied to its own result                         *)
(***************************************************************************)
\* the longest identifier, in characters
MaxIdLen == 4

\* the characters of the identifiers
IdChars == {"/", "g", ":", "7"}

\* the identifiers: strings, and the id of a record without one
StripInputs ==
    {Undefined, Null} \cup
    UNION {{Str(s) : s \in [1..len -> IdChars]} : len \in 0..MaxIdLen}

InitStrip ==
    /\ InitHandler
    /\ InitRest
    /\ rsql = <<>>
    /\ rpc = "off"
    /\ rtables = <<>>
    /\ FetchOff
    /\ NormOff
    /\ FnOff
    /\ stripPc = "ready"
    /\ stripInput \in StripInputs
    /\ stripped = <<>>

\* id: o.id?.split('/').pop(), on the identifier and then on every result
StripId ==
    /\ stripPc = "ready"
    /\ stripped' = Append(stripped,
                          OptSplitPop(IF stripped = <<>> THEN stripInput
                                      ELSE stripped[Len(stripped)]))
    /\ stripPc' = IF Len(stripped) = 1 THEN "done" ELSE "ready"
    /\ UNCHANGED stripInput

NextStrip ==
    StripId /\ UNCHANGED <<resolverVars, handlerVars, restVars, fetchVars, normVars, fnVars>>

SpecStrip == InitStrip /\ [][NextStrip]_vars

(***************************************************************************)
(* C21: identifier stripping is idempotent: strip(strip(x)) = strip(x) for *)
(* every identifier x, no stripping raises, and an identifier that         *)
(* contains no '/' is returned unchanged.                                  *)
(***************************************************************************)
C21_StripIdempotent ==
    /\ \A i \in DOMAIN stripped : stripped[i] # Thrown
    /\ Len(stripped) = 2 => stripped[2] = stripped[1]
    /\ (/\ stripped # <<>>
        /\ stripInput.k = "string"
        /\ "/" \notin Range(stripInput.s)) => stripped[1] = stripInput

\* a gid-like identifier with two '/' stripped twice
C21_Witness ==
    /\ stripPc = "done"
    /\ stripInput = Str(<<"g", "/", "/", "7">>)
    /\ stripped = <<Str(<<"7">>), Str(<<"7">>)>>

(***************************************************************************)
(* C22: in every request that resolved tables, the step that executes the  *)
(* SQL leaves each resolved table holding exactly the rows this request    *)
(* fetched for it, and the load of the tables and the execution are one    *)
(* step: no step of another request lies between them.                     *)
(***************************************************************************)
\* request r executes its statement in this step
Executes(r) == ~engineCall[r].called /\ engineCall'[r].called

\* request r loads its tables in this step
Loads(r) == loadedBy[r] = {} /\ loadedBy'[r] # {}

C22_TablesFreshAtExecution ==
    [][\A r \in Requests :
          /\ (Executes(r) /\ resolved[r] # <<>>) =>
                /\ Loads(r)
                /\ loadedBy'[r] = Range(resolved[r])
                /\ \A t \in Range(resolved[r]) : alasqlTables'[t] = FetchedData(r, t)
                /\ \A q \in Requests \ {r} : pc'[q] = pc[q] /\ loadedBy'[q] = loadedBy[q]
          /\ Loads(r) => Executes(r)]_vars

\* request 2 executes over a table that request 1, in flight together with
\* it, had loaded before
C22_Witness ==
    /\ pc[1] = "done"
    /\ "orders" \in loadedBy[1]
    /\ 1 \in overlap[2]
    /\ engineCall[2].called
    /\ ~engineCall[2].threw
    /\ "orders" \in loadedBy[2]
    /\ alasqlTables["orders"] = FetchedData(2, "orders")

(***************************************************************************)
(* C23: within one fetch the page requests are strictly sequential: at     *)
(* most one request is outstanding, a request is outstanding exactly while *)
(* the loop is at its await, the first request carries after = null, and   *)
(* every later request carries the endCursor of the response before it.    *)
(***************************************************************************)
C23_PagesStrictlySequential ==
    /\ outstanding \in {0, 1}
    /\ outstanding = 1 <=> fetchPc = "awaiting"
    /\ fetchPc = "awaiting" =>
          lastRequest.after = IF lastResponse.received THEN lastResponse.endCursor
                              ELSE Null
    /\ (fetchPc \in {"loop", "returned"} /\ lastRequest # NoPageRequest) =>
          lastResponse.received

\* the third request of a fetch, carrying the cursor of the second response
C23_Witness ==
    /\ fetchPc = "awaiting"
    /\ lastRequest.accumulated = 100
    /\ lastResponse.received
    /\ lastResponse.endCursor = Str(<<"c2">>)
    /\ lastRequest.after = Str(<<"c2">>)

(***************************************************************************)
(* SpecFetchLive: one call of fetchShopifyData in which the remote API     *)
(* answers every page request and the loop takes every step it can         *)
(***************************************************************************)
SpecFetchLive == InitFetch /\ [][NextFetch]_vars /\ WF_vars(NextFetch)

(***************************************************************************)
(* C24: when the remote API answers each request, the pagination loop of   *)
(* fetchShopifyData ends and the function returns, also when the remote    *)
(* API answers with pages of zero nodes that report hasNextPage = true.    *)
(***************************************************************************)
C24_PaginationTerminates == <>(fetchPc = "returned")

(***************************************************************************)
(* SpecLive: the query handler when the remote API answers every request   *)
(* and every step that can be taken is taken                               *)
(***************************************************************************)
SpecLive == Init /\ [][Next]_vars /\ WF_vars(Next)

(***************************************************************************)
(* C25: every invocation goes Idle -> Loading -> Executing -> terminal:    *)
(* the SQL is executed only after the fetches of all resolved tables have  *)
(* succeeded; a response is sent exactly when the invocation ends, it is   *)
(* either a success (results and count) or a failure (error), and it is    *)
(* sent once; and, the remote API answering, every invocation that started *)
(* loading ends with a response.                                           *)
(***************************************************************************)
\* the order of the stages and the shape of the response of request r, a
\* POST request
StagesInOrder(r) ==
    given[r].method \in {"none", "POST"} =>
        /\ engineCall[r].called =>
              /\ resolved[r] # <<>>
              /\ ~remoteFailure[r].failed
              /\ Len(tableData[r]) = Len(resolved[r])
              /\ \A i \in 1..Len(resolved[r]) : tableData[r][i].table = resolved[r][i]
        /\ pc[r] = "done" <=> response[r] # NoResponse
        /\ response[r] # NoResponse =>
              \/ /\ response[r].status = 200
                 /\ response[r].keys = {"results", "count"}
                 /\ engineCall[r].called /\ ~engineCall[r].threw
              \/ /\ response[r].status \in {400, 401, 500}
                 /\ response[r].keys = {"error"}
                 /\ response[r].results = NoResults

\* a response that was sent is never followed by another one
RespondsOnce(r) == response[r] # NoResponse => response'[r] = response[r]

C25_InvocationStagesAndOneResponse ==
    /\ [](\A r \in Requests : StagesInOrder(r))
    /\ [][\A r \in Requests : RespondsOnce(r)]_vars
    /\ \A r \in Requests : (pc[r] = "fetching") ~> (pc[r] = "done")

(***************************************************************************)
(* C26: no remote request is issued before the preconditions of the        *)
(* request hold: a request whose method is OPTIONS (200) or is not POST    *)
(* (405), a POST request without sql (400), and a POST request with sql    *)
(* and neither a session holding both storeName and accessToken nor body   *)
(* credentials holding both storeName and apiPassword (401) are answered   *)
(* with no remote call, no Set-Cookie header and no table loaded; and a    *)
(* request with a valid session uses the session's store and token, also   *)
(* when it carries body credentials.                                       *)
(***************************************************************************)
\* request r was answered with this status and touched nothing
AnsweredUntouched(r, status) ==
    /\ pc[r] = "done"
    /\ response[r].status = status
    /\ response[r].setCookie = "none"
    /\ remoteRequested[r] = {}
    /\ ~remoteFailure[r].failed
    /\ loadedBy[r] = {}
    /\ \A t \in Catalog : alasqlTables[t].by # r
    /\ ~engineCall[r].called
    /\ auth[r] = "none"

C26_NoRemoteCallBeforePreconditions ==
    \A r \in Requests :
        pc[r] # "idle" =>
            /\ given[r].method = "OPTIONS" => AnsweredUntouched(r, 200)
            /\ given[r].method \notin {"OPTIONS", "POST"} => AnsweredUntouched(r, 405)
            /\ (given[r].method = "POST" /\ sqlText[r] = SqlEmpty) => AnsweredUntouched(r, 400)
            /\ (/\ given[r].method = "POST"
                /\ sqlText[r] # SqlEmpty
                /\ given[r].session # "valid"
                /\ given[r].credentials # "both") => AnsweredUntouched(r, 401)
            /\ (/\ given[r].method = "POST"
                /\ sqlText[r] # SqlEmpty
                /\ given[r].session = "valid") => auth[r] = "session"
            /\ remoteRequested[r] # {} =>
                  /\ given[r].method = "POST"
                  /\ sqlText[r] # SqlEmpty
                  /\ auth[r] # "none"

\* a request without usable credentials was answered 401, and a request
\* with a valid session and body credentials fetches with the session's
C26_Witness ==
    /\ response[1].status = 401
    /\ given[1] = Given("partial", "partial")
    /\ remoteRequested[1] = {}
    /\ given[2] = Given("valid", "both")
    /\ auth[2] = "session"
    /\ remoteRequested[2] # {}

(***************************************************************************)
(* SpecRemote: one request that resolves orders and order_line_items,      *)
(* against a store whose orders change while the request runs              *)
(***************************************************************************)
\* the order ids of the store, and the most line items of an order
MaxOrders == 2

MaxLineItems == 2

\* the states of the store: some of the orders, each with its line items
RemoteStates ==
    UNION {[ids -> 1..MaxLineItems] : ids \in SUBSET (1..MaxOrders)}

\* an order is created or deleted, or its line items are edited
RemoteChange(store) ==
    /\ store # remote
    /\ remote' = store
    /\ UNCHANGED <<pc, given, auth, snapshot, sqlText, resolved, fetchIdx, page,
                   pageAfter, tableData, response, alasqlTables, remoteRequested,
                   remoteFailure, loadedBy, engineCall, overlap, respondedBefore>>

NextRemote ==
    \/ StartFetch(1, SqlOrdersItems) /\ UNCHANGED <<resolverVars, restVars, libVars>>
    \/ \E endCursor \in EndCursors : FetchPageMore(1, endCursor) /\ UNCHANGED <<resolverVars, restVars, libVars>>
    \/ FetchTableDone(1) /\ UNCHANGED <<resolverVars, restVars, libVars>>
    \/ FetchLastAndExecute(1) /\ UNCHANGED <<resolverVars, restVars, libVars>>
    \/ \E failure \in FetchFailures : FetchFail(1, failure) /\ UNCHANGED <<resolverVars, restVars, libVars>>
    \/ \E store \in RemoteStates : RemoteChange(store) /\ UNCHANGED <<resolverVars, restVars, libVars>>

SpecRemote == Init /\ [][NextRemote]_vars

(***************************************************************************)
(* C27: a request that resolves orders and order_line_items queries the    *)
(* orders resource once for each of the two tables, in separate fetches,   *)
(* and each fetch reads the store as it is when the fetch completes; so    *)
(* when the store changes between the two fetches the loaded tables can    *)
(* disagree: an order_line_items.order_id with no row in orders, and an    *)
(* orders.line_items_count that is not the number of the order's rows in   *)
(* order_line_items.                                                       *)
(***************************************************************************)
\* one completed fetch per table fetched, each of the table's base resource
OneFetchPerTable(r) ==
    /\ Len(snapshot[r]) = Len(tableData[r])
    /\ \A i \in 1..Len(snapshot[r]) :
          /\ snapshot[r][i].table = resolved[r][i]
          /\ snapshot[r][i].table \in {"orders", "order_line_items"} =>
                snapshot[r][i].base = "orders"

\* a fetch that completes in this step read the store as it is
ReadsCurrentStore(r) ==
    snapshot'[r] # snapshot[r] =>
        /\ Len(snapshot'[r]) = Len(snapshot[r]) + 1
        /\ snapshot'[r][Len(snapshot'[r])].data = remote

C27_BaseFetchedPerTable ==
    /\ [](\A r \in Requests : OneFetchPerTable(r))
    /\ [][\A r \in Requests : ReadsCurrentStore(r)]_vars

\* the request answered 200 over an orders table with order 1 and one line
\* item, and an order_line_items table with two rows of order 1 and one of
\* order 2
C27_Witness ==
    /\ response[1].status = 200
    /\ resolved[1] = <<"orders", "order_line_items">>
    /\ loadedBy[1] = {"orders", "order_line_items"}
    /\ snapshot[1][1].data = [o \in {1} |-> 1]
    /\ snapshot[1][2].data = [o \in {1, 2} |-> IF o = 1 THEN 2 ELSE 1]

====
